---- MODULE Spec2Model ----
(***************************************************************************)
(* State-machine model of the recipient resolution and payment             *)
(* confirmation workflow of the ARC Telegram bot:                           *)
(*   utils/validation.js   (src/unnamed/part_008)  parser and validators    *)
(*   controllers/botController.js                  handlers and resolver    *)
(*   services/telegramService.js (src/unnamed/part_006) sessions, dispatch  *)
(*   services/auth0Service.js                      the profile store        *)
(*                                                                         *)
(* A JavaScript string is a sequence of one-character strings, so that the *)
(* parser, the validators and the button payloads work on characters.      *)
(***************************************************************************)
EXTENDS Integers, Sequences, FiniteSets, TLC

VARIABLES
  profiles,         \* Auth0 profile store: telegram id -> user_metadata or NoProfile
  sessions,         \* telegramService.userSessions: telegram id -> session
  pendingPayments,  \* BotController.pendingPayments (a Map, request id -> request)
  msgs,             \* chat messages that carry (or carried) an inline keyboard
  tasks,            \* handler executions in flight, each with its position
  rail,             \* calls of arcService.sendUSDCPayment, in call order
  now,              \* the clock (Date.now()), in ticks
  faults,           \* calls of the chat transport that have thrown so far
  lastToolCall,     \* agentService: the variable the tools of the agent write
  call              \* the last command or function evaluation and its outcome

vars ==
  <<profiles, sessions, pendingPayments, msgs, tasks, rail, now, faults, lastToolCall,
    call>>

----------------------------------------------------------------------------
(* Characters and strings *)

Digit == {"0", "1", "2", "3", "4", "5", "6", "7", "8", "9"}

HexLetter == {"a", "b", "c", "d", "e", "f", "A", "B", "C", "D", "E", "F"}

Letter ==
  {"a", "b", "c", "d", "e", "f", "g", "h", "i", "j", "k", "l", "m", "n", "o",
   "p", "q", "r", "s", "t", "u", "v", "w", "x", "y", "z",
   "A", "B", "C", "D", "E", "F", "G", "H", "I", "J", "K", "L", "M", "N", "O",
   "P", "Q", "R", "S", "T", "U", "V", "W", "X", "Y", "Z"}

\* String.prototype.startsWith
StartsWith(s, p) == Len(s) >= Len(p) /\ SubSeq(s, 1, Len(p)) = p

\* String.prototype.substring(from) with 0-based from
Substring(s, from) == SubSeq(s, from + 1, Len(s))

\* n copies of the character c
Rep(c, n) == [i \in 1..n |-> c]

RECURSIVE TrimLeft(_)
TrimLeft(s) == IF s # <<>> /\ Head(s) = " " THEN TrimLeft(Tail(s)) ELSE s

RECURSIVE TrimRight(_)
TrimRight(s) ==
  IF s # <<>> /\ s[Len(s)] = " " THEN TrimRight(SubSeq(s, 1, Len(s) - 1)) ELSE s

\* String.prototype.trim
Trim(s) == TrimRight(TrimLeft(s))

\* String.prototype.toLowerCase / toUpperCase on the letters the model uses
LowerOf(c) ==
  CASE c = "M" -> "m" [] c = "E" -> "e" [] c = "U" -> "u" [] c = "S" -> "s"
    [] c = "D" -> "d" [] c = "C" -> "c" [] OTHER -> c

UpperOf(c) ==
  CASE c = "m" -> "M" [] c = "e" -> "E" [] c = "u" -> "U" [] c = "s" -> "S"
    [] c = "d" -> "D" [] c = "c" -> "C" [] OTHER -> c

ToLowerCase(s) == [i \in 1..Len(s) |-> LowerOf(s[i])]

ToUpperCase(s) == [i \in 1..Len(s) |-> UpperOf(s[i])]

\* /^\d+$/.test(s)
AllDigits(s) == s # <<>> /\ \A i \in 1..Len(s) : s[i] \in Digit

RECURSIVE StripZeros(_)
StripZeros(s) == IF s # <<>> /\ Head(s) = "0" THEN StripZeros(Tail(s)) ELSE s

----------------------------------------------------------------------------
(* utils/validation.js: the Joi schemas *)

\* evmAddressSchema: /^0x[a-fA-F0-9]{40}$/
evmAddressSchema(s) ==
  /\ Len(s) = 42
  /\ s[1] = "0" /\ s[2] = "x"
  /\ \A i \in 3..42 : s[i] \in Digit \cup HexLetter

\* telegramUsernameSchema: /^@?[a-zA-Z0-9_]{5,32}$/
telegramUsernameSchema(s) ==
  LET body == IF s # <<>> /\ Head(s) = "@" THEN Tail(s) ELSE s
  IN /\ Len(body) >= 5 /\ Len(body) <= 32
     /\ \A i \in 1..Len(body) : body[i] \in Letter \cup Digit \cup {"_"}

\* friendAliasSchema: /^[^@][a-zA-Z0-9_-]{0,15}$/, min 1, max 16,
\* invalid('me', 'Me', 'ME')
friendAliasSchema(s) ==
  /\ Len(s) >= 1 /\ Len(s) <= 16
  /\ s[1] # "@"
  /\ \A i \in 2..Len(s) : s[i] \in Letter \cup Digit \cup {"_", "-"}
  /\ s \notin {<<"m", "e">>, <<"M", "e">>, <<"M", "E">>}

----------------------------------------------------------------------------
(* JavaScript numbers, as far as amounts need them: NaN, or a sign with the *)
(* decimal digits of the integer part (no leading zeros, <<>> for 0) and of *)
(* the fraction (no trailing zeros).                                        *)

DigitSeq == <<"0", "1", "2", "3", "4", "5", "6", "7", "8", "9">>

DigitVal(c) == (CHOOSE i \in 1..10 : DigitSeq[i] = c) - 1

NaN == [nan |-> TRUE, neg |-> FALSE, ip |-> <<>>, fp |-> <<>>]

RECURSIVE DigitPrefix(_)
DigitPrefix(s) ==
  IF s # <<>> /\ Head(s) \in Digit THEN <<Head(s)>> \o DigitPrefix(Tail(s)) ELSE <<>>

RECURSIVE StripTrailingZeros(_)
StripTrailingZeros(s) ==
  IF s # <<>> /\ s[Len(s)] = "0"
  THEN StripTrailingZeros(SubSeq(s, 1, Len(s) - 1))
  ELSE s

\* The value of a string of digits, and the digits of a natural number
RECURSIVE DigitsToNat(_)
DigitsToNat(s) ==
  IF s = <<>> THEN 0 ELSE 10 * DigitsToNat(SubSeq(s, 1, Len(s) - 1)) + DigitVal(s[Len(s)])

RECURSIVE NatToString(_)
NatToString(n) ==
  IF n < 10 THEN <<DigitSeq[n + 1]>> ELSE NatToString(n \div 10) \o <<DigitSeq[(n % 10) + 1]>>

\* The decimal ip.fp times 10^e
Scaled(neg, ip, fp, e) ==
  LET digits == ip \o fp
      point == Len(ip) + e
  IN [nan |-> FALSE,
      neg |-> neg,
      ip |-> StripZeros(IF point <= 0 THEN <<>>
                        ELSE IF point >= Len(digits)
                        THEN digits \o Rep("0", point - Len(digits))
                        ELSE SubSeq(digits, 1, point)),
      fp |-> StripTrailingZeros(IF point <= 0 THEN Rep("0", 0 - point) \o digits
                                ELSE IF point >= Len(digits) THEN <<>>
                                ELSE SubSeq(digits, point + 1, Len(digits)))]

\* parseFloat: leading blanks skipped, an optional sign, the longest prefix of
\* the form digits[.digits] or .digits, then an exponent (e or E, an optional
\* sign, digits) when one follows; NaN when there is no such prefix.
\* ("Infinity" is outside the input alphabet of the model, and the
\* exponents drawn keep the value a normal double.)
parseFloat(str) ==
  LET parsed(text) ==
        LET t == TrimLeft(text)
            signed == t # <<>> /\ Head(t) \in {"-", "+"}
            u == IF signed THEN Tail(t) ELSE t
            ipRaw == DigitPrefix(u)
            rest == Substring(u, Len(ipRaw))
            fpRaw == IF rest # <<>> /\ Head(rest) = "."
                     THEN DigitPrefix(Tail(rest)) ELSE <<>>
            after == IF rest # <<>> /\ Head(rest) = "."
                     THEN Substring(rest, 1 + Len(fpRaw)) ELSE rest
            marked == after # <<>> /\ Head(after) \in {"e", "E"}
            expSigned == marked /\ Len(after) >= 2 /\ after[2] \in {"-", "+"}
            expRaw == IF ~marked THEN <<>>
                      ELSE DigitPrefix(Substring(after, IF expSigned THEN 2 ELSE 1))
            exponent == IF expSigned /\ after[2] = "-" THEN 0 - DigitsToNat(expRaw)
                        ELSE DigitsToNat(expRaw)
        IN IF ipRaw = <<>> /\ fpRaw = <<>>
           THEN NaN
           ELSE IF expRaw = <<>>
           THEN [nan |-> FALSE,
                 neg |-> signed /\ Head(t) = "-",
                 ip |-> StripZeros(ipRaw),
                 fp |-> StripTrailingZeros(fpRaw)]
           ELSE Scaled(signed /\ Head(t) = "-", ipRaw, fpRaw, exponent)
  IN \* the argument is evaluated once, then parsed
     CHOOSE v \in {parsed(text) : text \in {str}} : TRUE

IsZero(v) == ~v.nan /\ v.ip = <<>> /\ v.fp = <<>>

\* v > 0
IsPositive(v) == ~v.nan /\ ~v.neg /\ ~IsZero(v)

\* !v  (falsy: NaN, 0, -0)
IsFalsy(v) == v.nan \/ IsZero(v)

\* lexicographic a > b for digit strings of equal length
RECURSIVE DigitsGreater(_, _)
DigitsGreater(a, b) ==
  IF a = <<>> THEN FALSE
  ELSE IF Head(a) # Head(b) THEN DigitVal(Head(a)) > DigitVal(Head(b))
  ELSE DigitsGreater(Tail(a), Tail(b))

\* 2^53 and 2^54 in decimal: up to 2^53 every integer is a double, from
\* there to 2^54 every second one.
Pow53 == <<"9", "0", "0", "7", "1", "9", "9", "2", "5", "4", "7", "4", "0", "9", "9", "2">>

Pow54 ==
  <<"1", "8", "0", "1", "4", "3", "9", "8", "5", "0", "9", "4", "8", "1", "9", "8", "4">>

\* a > b for integers in decimal without leading zeros
IntGreater(a, b) == Len(a) > Len(b) \/ (Len(a) = Len(b) /\ DigitsGreater(a, b))

RECURSIVE Increment(_)
Increment(n) ==
  IF n = <<>> THEN <<"1">>
  ELSE IF n[Len(n)] = "9" THEN Increment(SubSeq(n, 1, Len(n) - 1)) \o <<"0">>
  ELSE SubSeq(n, 1, Len(n) - 1) \o <<DigitSeq[DigitVal(n[Len(n)]) + 2]>>

\* The decimal form of the integer that parseInt reads from an all-digit
\* string (Number.prototype.toString of it): leading zeros dropped, "0" for
\* 0, and the nearest double (ties to the even mantissa) for an integer
\* between 2^53 and 2^54.  Above 2^54 the doubles lie further apart; no such
\* string is drawn.
ParseIntDigits(s) ==
  LET n == StripZeros(s)
      last == DigitVal(n[Len(n)])
      lastTwo == 10 * DigitVal(n[Len(n) - 1]) + last
  IN IF n = <<>> THEN <<"0">>
     ELSE IF ~IntGreater(n, Pow53) \/ IntGreater(n, Pow54) \/ last % 2 = 0 THEN n
     ELSE IF lastTwo % 4 = 1
     THEN SubSeq(n, 1, Len(n) - 1) \o <<DigitSeq[last]>>
     ELSE Increment(n)

\* The fraction does not vanish when rounded to `places` decimals
\* (Math.round(v * 10^places) / 10^places).
FractionSurvivesRounding(fp, places) ==
  \/ \E i \in 1..Len(fp) : i <= places /\ fp[i] # "0"
  \/ Len(fp) > places /\ DigitVal(fp[places + 1]) >= 5

\* amountSchema: Joi.number().positive().precision(6).max(1000000000000)
AmountPrecision == 6

AmountMaxDigits == <<"1", "0", "0", "0", "0", "0", "0", "0", "0", "0", "0", "0", "0">>

\* The verdict of amountSchema.validate(v) for a JavaScript number v under the
\* default preferences (convert: true): the value is first rounded to the
\* precision, then checked: "number.base" for NaN, "number.positive",
\* "number.max", or "ok".
amountSchema(v) ==
  LET fracLeft == FractionSurvivesRounding(v.fp, AmountPrecision)
      positive == ~v.neg /\ (v.ip # <<>> \/ fracLeft)
      aboveMax ==
        \/ Len(v.ip) > Len(AmountMaxDigits)
        \/ /\ Len(v.ip) = Len(AmountMaxDigits)
           /\ \/ DigitsGreater(v.ip, AmountMaxDigits)
              \/ v.ip = AmountMaxDigits /\ fracLeft
  IN IF v.nan THEN "number.base"
     ELSE IF ~positive THEN "number.positive"
     ELSE IF aboveMax THEN "number.max"
     ELSE "ok"

----------------------------------------------------------------------------
(* utils/validation.js: the manual validation functions.                    *)
(* Each is  try { schema.validate(x); return true } catch { return false }. *)
(* Joi's any.validate() reports a failure in the `error` field of the       *)
(* object it returns and does not throw, so the catch branch is never       *)
(* taken and the schema's verdict is discarded.                             *)

\* Whether schema.validate() throws for a value with the given verdict.
ValidateThrows(verdictOk) == FALSE

isValidEVMAddress(address) == ~ValidateThrows(evmAddressSchema(address))

isValidTelegramUsername(username) == ~ValidateThrows(telegramUsernameSchema(username))

isValidAmount(amount) == ~ValidateThrows(amountSchema(amount) = "ok")

isValidFriendAlias(alias) == ~ValidateThrows(friendAliasSchema(alias))

\* parseRecipient: {type, value} or a thrown ValidationError (type "error").
Parsed(type, value) == [type |-> type, value |-> value, err |-> "none"]

ParseError(message) == [type |-> "error", value |-> <<>>, err |-> message]

parseRecipient(recipient) ==
  LET trimmed == Trim(recipient)
  IN IF recipient = <<>>
     THEN ParseError("Recipient is required")
     ELSE IF StartsWith(trimmed, <<"0", "x">>) /\ Len(trimmed) = 42
     THEN IF isValidEVMAddress(trimmed)
          THEN Parsed("address", trimmed)
          ELSE ParseError("Invalid EVM address format")
     ELSE IF StartsWith(trimmed, <<"@">>)
     THEN IF isValidTelegramUsername(Substring(trimmed, 1))
          THEN Parsed("username", Substring(trimmed, 1))
          ELSE ParseError("Invalid Telegram username format")
     ELSE IF AllDigits(trimmed)
     THEN IF ParseIntDigits(trimmed) # <<"0">>
          THEN Parsed("userId", ParseIntDigits(trimmed))
          ELSE ParseError("Invalid Telegram user ID")
     ELSE IF Len(trimmed) <= 16 /\ ~StartsWith(trimmed, <<"@">>)
     THEN IF isValidFriendAlias(trimmed)
          THEN Parsed("alias", trimmed)
          ELSE ParseError("Invalid friend alias format")
     ELSE ParseError("Invalid recipient format")

----------------------------------------------------------------------------
(* Named strings of the model *)

Str_confirm == <<"c", "o", "n", "f", "i", "r", "m">>

Str_pay == <<"p", "a", "y">>

Str_USDC == <<"U", "S", "D", "C">>

Str_NaN == <<"N", "a", "N">>

Str_bob == <<"b", "o", "b">>

Str_b2 == <<"b", "2">>

Str_bobby == <<"b", "o", "b", "b", "y">>

Str_alice == <<"a", "l", "i", "c", "e">>

Str_me == <<"m", "e">>

Str_constructor == <<"c", "o", "n", "s", "t", "r", "u", "c", "t", "o", "r">>

\* An address-like string: "0x", then n times the character c, the k-th of
\* them replaced by b (k = 0: none replaced).
AddrLike(c, n, k, b) == <<"0", "x">> \o [i \in 1..n |-> IF i = k THEN b ELSE c]

\* The wallet address made of the hex digit c.
Addr(c) == AddrLike(c, 40, 0, c)

----------------------------------------------------------------------------
(* Evaluation of the parser and the validators on drawn inputs *)

\* Lengths of the part after "0x" that the address-like inputs take: the
\* exact length, one less, one more, and short ones.
MaxShortBody == 2

BodyLengths == (1..MaxShortBody) \cup {39, 40, 41}

AddressInputs ==
  {AddrLike(c, n, k, b) :
     c \in {"a", "F", "7"}, n \in BodyLengths, k \in {0, 1}, b \in {"g", "_", " "}}
  \cup {AddrLike(c, n, n, b) : c \in {"a", "7"}, n \in BodyLengths, b \in {"G", "x"}}

RecipientInputs ==
  {<<>>, <<"@">> \o Str_bobby, <<"@">> \o Str_bob, <<"2">>, <<"0">>, <<"0", "0", "7">>,
   Str_bob, Str_me, <<"b", "o", "b", "-", "2">>, <<"a", " ", "b">>, <<" ", "2", " ">>,
   Rep("a", 16), Rep("a", 17), <<"0", "0">>, Increment(Pow53),
   Increment(Increment(Increment(Pow53)))}

AmountInputs ==
  {<<"1", "0">>, <<"0", ".", "0", "0", "0", "0", "0", "1">>, <<"0">>, <<"-", "5">>,
   <<"a", "b", "c">>, <<"1">> \o Rep("0", 11) \o <<"1">>, <<"1">> \o Rep("0", 12),
   <<"1", "0", ".", "5">>, <<"0", ".", "0", "0", "0", "0", "0", "0", "1">>,
   <<"1", ".", "1", "2", "3", "4", "5", "6", "7">>, <<"-", "0">>, <<".", "5">>}

AliasInputs ==
  {Str_me, <<"M", "E">>, <<"M", "e">>, <<"m", "E">>, <<"@">> \o Str_bob,
   Rep("a", 17), Rep("a", 16), <<"a", " ", "b">>, <<"b", "o", "b", "-", "2">>,
   Str_bob, <<"7">>, <<>>, <<"b", "!">>}

EvalInputs == AddressInputs \cup RecipientInputs \cup AmountInputs \cup AliasInputs

NoResult == [ok |-> FALSE]

Input(s) == [op |-> "input", arg |-> s, by |-> 0, res |-> NoResult]

\* parseRecipient(arg)
EvalParseRecipient ==
  /\ call.op = "input"
  /\ call' = [call EXCEPT !.op = "parseRecipient", !.res = parseRecipient(call.arg)]
  /\ UNCHANGED <<faults, profiles, sessions, pendingPayments, msgs, tasks, rail, now,
                 lastToolCall>>

\* isValidEVMAddress(arg)
EvalIsValidEVMAddress ==
  /\ call.op = "input"
  /\ call' = [call EXCEPT !.op = "isValidEVMAddress",
                          !.res = [ok |-> isValidEVMAddress(call.arg)]]
  /\ UNCHANGED <<faults, profiles, sessions, pendingPayments, msgs, tasks, rail, now,
                 lastToolCall>>

\* isValidAmount(parseFloat(arg)), the check of handlePay, handleRequest and
\* handlePaymentAmountInput
EvalIsValidAmount ==
  /\ call.op = "input"
  /\ call' = [call EXCEPT !.op = "isValidAmount",
                          !.res = [ok |-> isValidAmount(parseFloat(call.arg))]]
  /\ UNCHANGED <<faults, profiles, sessions, pendingPayments, msgs, tasks, rail, now,
                 lastToolCall>>

\* isValidFriendAlias(arg), the check of handleAddFriend
EvalIsValidFriendAlias ==
  /\ call.op = "input"
  /\ call' = [call EXCEPT !.op = "isValidFriendAlias",
                          !.res = [ok |-> isValidFriendAlias(call.arg)]]
  /\ UNCHANGED <<faults, profiles, sessions, pendingPayments, msgs, tasks, rail, now,
                 lastToolCall>>

----------------------------------------------------------------------------
(* The profile store (services/auth0Service.js).  A telegram id, like every *)
(* JavaScript integer of the model, is the string of its decimal digits.    *)

U1 == <<"1">>

U2 == <<"2">>

U3 == <<"3">>

\* The users with an account; U3 has none.
Registered == {U1, U2}

TelegramIds == {U1, U2, U3}

NoSender == <<>>

InitialProfiles ==
  [u \in Registered |->
     [telegram_id |-> u,
      telegram_username |-> IF u = U1 THEN Str_alice ELSE Str_bobby,
      arc_address |-> IF u = U1 THEN Addr("a") ELSE Addr("b"),
      arc_private_key |-> u,
      friends |-> <<>>,
      payment_requests_sent |-> <<>>,
      payment_requests_received |-> <<>>]]

\* getUserByTelegramId(id) !== null
HasUser(id) == id \in DOMAIN profiles

\* getUserByTelegramId(id)
getUserByTelegramId(id) == profiles[id]

\* getUserByTelegramUsername(name): the ids whose telegram_username matches
\* the name with its first "@" removed; the search returns the first of them.
UsersByUsername(name) ==
  LET clean == IF \E i \in 1..Len(name) : name[i] = "@"
               THEN LET k == CHOOSE i \in 1..Len(name) :
                               name[i] = "@" /\ \A j \in 1..(i - 1) : name[j] # "@"
                    IN SubSeq(name, 1, k - 1) \o SubSeq(name, k + 1, Len(name))
               ELSE name
  IN {u \in DOMAIN profiles : profiles[u].telegram_username = clean}

\* findUserByAddress(address): the ids whose arc_address is the address
UsersByAddress(address) == {u \in DOMAIN profiles : profiles[u].arc_address = address}

----------------------------------------------------------------------------
(* The friends object of a profile: a JavaScript object, modelled as the    *)
(* sequence of its entries [alias, type, value] in Object.entries order     *)
(* (integer-like keys in ascending order first, then the other keys in      *)
(* insertion order).                                                        *)

\* A canonical array index: digits without a leading zero, or "0".
IsIndexKey(k) == AllDigits(k) /\ ParseIntDigits(k) = k

\* a < b for canonical index keys
IndexLess(a, b) == Len(a) < Len(b) \/ (Len(a) = Len(b) /\ DigitsGreater(b, a))

HasKey(friends, alias) == \E i \in 1..Len(friends) : friends[i].alias = alias

\* friends[alias]
GetKey(friends, alias) ==
  friends[CHOOSE i \in 1..Len(friends) : friends[i].alias = alias]

\* Property names every plain object inherits from Object.prototype (those
\* the model draws): friends[name] is a function for them, which is truthy.
InheritedKeys == {Str_constructor}

\* friends[alias] in a condition: an own entry, or an inherited property
LookupTruthy(friends, alias) == HasKey(friends, alias) \/ alias \in InheritedKeys

\* friends[alias] = {type, value} for a key that is not yet present
SetKey(friends, alias, type, value) ==
  LET e == [alias |-> alias, type |-> type, value |-> value]
      before == {i \in 1..Len(friends) :
                   IF IsIndexKey(alias)
                   THEN IsIndexKey(friends[i].alias) /\ IndexLess(friends[i].alias, alias)
                   ELSE TRUE}
      n == Cardinality(before)
  IN SubSeq(friends, 1, n) \o <<e>> \o SubSeq(friends, n + 1, Len(friends))

\* delete friends[alias]
DeleteKey(friends, alias) ==
  LET keep == {i \in 1..Len(friends) : friends[i].alias # alias}
      idx(n) == CHOOSE i \in keep : Cardinality({j \in keep : j < i}) = n - 1
  IN [n \in 1..Cardinality(keep) |-> friends[idx(n)]]

\* The loop of findFriendAliasByAddress / ByUsername / ByUserId: the alias of
\* the first entry of the given type and value, <<>> standing for null with
\* found = FALSE.
FirstAliasOf(friends, type, value) ==
  LET hits == {i \in 1..Len(friends) : friends[i].type = type /\ friends[i].value = value}
  IN IF hits = {}
     THEN [found |-> FALSE, alias |-> <<>>]
     ELSE [found |-> TRUE,
           alias |-> friends[CHOOSE i \in hits : \A j \in hits : i <= j].alias]

findFriendAliasByAddress(telegramId, address) ==
  IF HasUser(telegramId)
  THEN FirstAliasOf(getUserByTelegramId(telegramId).friends, "address", address)
  ELSE [found |-> FALSE, alias |-> <<>>]

\* A lookup that compares the entries of type "userId" with the handle, and so
\* never finds the alias a friend was saved under by handle.
findFriendAliasByUsername_WrongType(telegramId, username) ==
  IF HasUser(telegramId)
  THEN FirstAliasOf(getUserByTelegramId(telegramId).friends, "userId", username)
  ELSE [found |-> FALSE, alias |-> <<>>]

findFriendAliasByUsername(telegramId, username) ==
  IF HasUser(telegramId)
  THEN FirstAliasOf(getUserByTelegramId(telegramId).friends, "username", username)
  ELSE [found |-> FALSE, alias |-> <<>>]

findFriendAliasByUserId(telegramId, userId) ==
  IF HasUser(telegramId)
  THEN FirstAliasOf(getUserByTelegramId(telegramId).friends, "userId", userId)
  ELSE [found |-> FALSE, alias |-> <<>>]

----------------------------------------------------------------------------
(* controllers/botController.js: resolveRecipient *)

\* The most entries a friends object holds in the model.
MaxFriends == 2

\* null, with the reason kept for the properties: a parse error that was caught
\* ("none" when the lookup found nothing), or a resolution that never ends.
Null(err, diverges) ==
  [found |-> FALSE, type |-> "null", address |-> <<>>, displayName |-> <<>>,
   telegramId |-> <<>>, username |-> <<>>, isFriend |-> FALSE,
   err |-> err, diverges |-> diverges]

Resolved(type, address, displayName, telegramId, username, isFriend) ==
  [found |-> TRUE, type |-> type, address |-> address, displayName |-> displayName,
   telegramId |-> telegramId, username |-> username, isFriend |-> isFriend,
   err |-> "none", diverges |-> FALSE]

\* `${value.substring(0, 8)}...${value.substring(-4)}`; substring(-4) is
\* substring(0), the whole string.
TruncatedAddress(value) ==
  SubSeq(value, 1, IF Len(value) < 8 THEN Len(value) ELSE 8) \o <<".", ".", ".">> \o value

\* getFriendByAlias(telegramId, alias) !== null
HasFriend(telegramId, alias) ==
  HasUser(telegramId) /\ HasKey(getUserByTelegramId(telegramId).friends, alias)

\* getFriendByAlias(telegramId, alias)
getFriendByAlias(telegramId, alias) ==
  GetKey(getUserByTelegramId(telegramId).friends, alias)

\* The string the alias case resolves next: "@value" for a username target,
\* value.toString() for a user id, the value itself otherwise.
InnerRecipient(friendData) ==
  IF friendData.type = "username" THEN <<"@">> \o friendData.value ELSE friendData.value

\* resolveRecipient with the number of nested calls still allowed; a chain
\* of aliases without a cycle needs at most one call per entry and one more.
RECURSIVE resolveFrom(_, _, _, _)
resolveFrom(recipient, senderTelegramId, fuel, storeUp) ==
  LET parsed == parseRecipient(recipient)
  IN CASE parsed.type = "error" -> Null(parsed.err, FALSE)
       [] parsed.type = "address" ->
            IF ~storeUp
            THEN Resolved("address", parsed.value, TruncatedAddress(parsed.value),
                          <<>>, <<>>, FALSE)
            ELSE IF UsersByAddress(parsed.value) # {}
            THEN LET owner == profiles[CHOOSE u \in UsersByAddress(parsed.value) : TRUE]
                 IN Resolved("address", parsed.value, <<"@">> \o owner.telegram_username,
                             owner.telegram_id, owner.telegram_username, FALSE)
            ELSE IF /\ senderTelegramId # NoSender
                    /\ findFriendAliasByAddress(senderTelegramId, parsed.value).found
            THEN Resolved("address", parsed.value,
                          findFriendAliasByAddress(senderTelegramId, parsed.value).alias,
                          <<>>, <<>>, TRUE)
            ELSE Resolved("address", parsed.value, TruncatedAddress(parsed.value),
                          <<>>, <<>>, FALSE)
       [] parsed.type = "username" ->
            IF /\ storeUp
               /\ UsersByUsername(parsed.value) # {}
               /\ profiles[CHOOSE w \in UsersByUsername(parsed.value) : TRUE].arc_address
                    # <<>>
            THEN LET user == profiles[CHOOSE w \in UsersByUsername(parsed.value) : TRUE]
                     friendAlias == findFriendAliasByUsername(senderTelegramId, parsed.value)
                 IN IF senderTelegramId # NoSender /\ friendAlias.found
                    THEN Resolved("username", user.arc_address, friendAlias.alias,
                                  user.telegram_id, user.telegram_username, TRUE)
                    ELSE Resolved("username", user.arc_address, <<"@">> \o parsed.value,
                                  user.telegram_id, user.telegram_username, FALSE)
            ELSE Null("none", FALSE)
       [] parsed.type = "userId" ->
            IF /\ storeUp
               /\ HasUser(parsed.value)
               /\ getUserByTelegramId(parsed.value).arc_address # <<>>
            THEN LET user == getUserByTelegramId(parsed.value)
                     friendAlias == findFriendAliasByUserId(senderTelegramId, parsed.value)
                 IN IF senderTelegramId # NoSender /\ friendAlias.found
                    THEN Resolved("userId", user.arc_address, friendAlias.alias,
                                  user.telegram_id, user.telegram_username, TRUE)
                    ELSE Resolved("userId", user.arc_address,
                                  <<"@">> \o user.telegram_username,
                                  user.telegram_id, user.telegram_username, FALSE)
            ELSE Null("none", FALSE)
       [] parsed.type = "alias" ->
            IF /\ storeUp
               /\ senderTelegramId # NoSender
               /\ HasFriend(senderTelegramId, parsed.value)
            THEN LET friendData == getFriendByAlias(senderTelegramId, parsed.value)
                 IN IF friendData.type = "address"
                    THEN Resolved("alias", friendData.value, parsed.value, <<>>, <<>>, TRUE)
                    ELSE IF fuel = 0
                    THEN Null("none", TRUE)
                    ELSE LET resolved == resolveFrom(InnerRecipient(friendData),
                                                     senderTelegramId, fuel - 1,
                                                     storeUp)
                         IN IF resolved.found
                            THEN [resolved EXCEPT !.displayName = parsed.value,
                                                  !.isFriend = TRUE]
                            ELSE Null("none", resolved.diverges)
            ELSE Null("none", FALSE)

\* The number of calls of resolveRecipient that a call makes inside itself,
\* counted as far as the nested calls allowed: one for every friend entry
\* that is not an address (an inherited property of the friends object is
\* one, and the call for its undefined value throws in the parser).
RECURSIVE Recursions(_, _, _, _)
Recursions(recipient, senderTelegramId, fuel, storeUp) ==
  LET parsed == parseRecipient(recipient)
      friends == getUserByTelegramId(senderTelegramId).friends
  IN IF \/ parsed.type # "alias" \/ ~storeUp \/ fuel = 0
        \/ senderTelegramId = NoSender \/ ~HasUser(senderTelegramId)
        \/ ~LookupTruthy(friends, parsed.value)
     THEN 0
     ELSE IF ~HasKey(friends, parsed.value) THEN 1
     ELSE IF GetKey(friends, parsed.value).type = "address" THEN 0
     ELSE 1 + Recursions(InnerRecipient(GetKey(friends, parsed.value)),
                         senderTelegramId, fuel - 1, storeUp)

\* A resolver that remembers having been called: the friend flag of its
\* result is set when the call before was a resolution too.
resolveRecipient_RemembersCall(recipient, senderTelegramId, storeUp) ==
  LET resolved == resolveFrom(recipient, senderTelegramId, MaxFriends + 1, storeUp)
  IN IF resolved.found
     THEN [resolved EXCEPT !.isFriend = (call.op = "resolve")]
     ELSE resolved

\* A resolver without the try block around its look-ups: what the store
\* throws leaves the resolver.
resolveRecipient_Uncaught(recipient, senderTelegramId, storeUp) ==
  IF ~storeUp /\ parseRecipient(recipient).type \in {"username", "userId"}
  THEN Null("thrown", FALSE)
  ELSE resolveFrom(recipient, senderTelegramId, MaxFriends + 1, storeUp)

\* resolveRecipient(recipient, senderTelegramId); storeUp: whether the
\* look-ups in the profile store made by the call succeed.
resolveRecipient(recipient, senderTelegramId, storeUp) ==
  resolveFrom(recipient, senderTelegramId, MaxFriends + 1, storeUp)

----------------------------------------------------------------------------
(* controllers/botController.js: the address book commands.  A command is   *)
(* one action; `call` keeps the command, its arguments and its outcome.     *)

\* The aliases and targets the address-book commands are given.
BookTargets == {<<"@">> \o Str_bobby, <<"2">>, Addr("c"), Str_bob, <<"0">>}

BookAliases == {Str_bob, Str_b2, <<"2">>, Str_me, <<"@">> \o Str_bob, Str_constructor}

\* Who issues the address-book commands: U1, who has an account, and U3, who
\* has none and for whom one alias and one target are enough.  U2 resolves only.
BookUsers == {U1, U3}

AliasesOf(u) == IF u = U1 THEN BookAliases ELSE {Str_bob}

TargetsOf(u) == IF u = U1 THEN BookTargets ELSE {<<"@">> \o Str_bobby}

ResolveInputs ==
  BookAliases \cup {<<"@">> \o Str_bobby, Addr("c"), Addr("b"), AddrLike("a", 40, 1, "g"),
                    <<"0">>}

\* auth0Service.updateUserMetadata(user_id, metadata): the whole user_metadata
\* of the profile is replaced.
updateUserMetadata(id, metadata) == [profiles EXCEPT ![id] = metadata]

\* An add that skips the look-up of the alias and assigns friends[alias]
\* whether or not the alias is there.
handleAddFriend_Overwrites(u, aliasInput, friendInput, storeUp) ==
  LET parsed == parseRecipient(friendInput)
      outcome(o) == [op |-> "addfriend", by |-> u, arg |-> aliasInput,
                     res |-> [outcome |-> o, target |-> friendInput]]
  IN IF ~HasUser(u)
     THEN call' = outcome("no_account") /\ UNCHANGED profiles
     ELSE IF parsed.type = "error"
     THEN call' = outcome("invalid_target") /\ UNCHANGED profiles
     ELSE IF ~storeUp
     THEN call' = outcome("failed") /\ UNCHANGED profiles
     ELSE /\ Len(DeleteKey(getUserByTelegramId(u).friends, aliasInput)) < MaxFriends
          /\ profiles' = updateUserMetadata(u,
               [getUserByTelegramId(u) EXCEPT
                  !.friends = SetKey(DeleteKey(@, aliasInput), aliasInput,
                                     parsed.type, parsed.value)])
          /\ call' = outcome("added")

\* handleAddFriend(message, [aliasInput, friendInput]) for message.from.id = u;
\* storeUp: whether the profile update succeeds.
handleAddFriend(u, aliasInput, friendInput, storeUp) ==
  LET parsed == parseRecipient(friendInput)
      outcome(o) == [op |-> "addfriend", by |-> u, arg |-> aliasInput,
                     res |-> [outcome |-> o, target |-> friendInput]]
  IN IF ~isValidFriendAlias(aliasInput)
     THEN call' = outcome("invalid_alias") /\ UNCHANGED profiles
     ELSE IF ~HasUser(u)
     THEN call' = outcome("no_account") /\ UNCHANGED profiles
     ELSE IF parsed.type = "error"
     THEN call' = outcome("invalid_target") /\ UNCHANGED profiles
     ELSE IF LookupTruthy(getUserByTelegramId(u).friends, aliasInput)
     THEN call' = outcome("exists") /\ UNCHANGED profiles
     ELSE IF ~storeUp
     THEN call' = outcome("failed") /\ UNCHANGED profiles
     ELSE /\ Len(getUserByTelegramId(u).friends) < MaxFriends
          /\ profiles' = updateUserMetadata(u,
               [getUserByTelegramId(u) EXCEPT
                  !.friends = SetKey(@, aliasInput, parsed.type, parsed.value)])
          /\ call' = outcome("added")

AddFriend ==
  /\ \E u \in BookUsers :
     \E aliasInput \in AliasesOf(u), friendInput \in TargetsOf(u) :
       \E storeUp \in IF HasUser(u) THEN BOOLEAN ELSE {TRUE} :
         handleAddFriend(u, aliasInput, friendInput, storeUp)
  /\ UNCHANGED <<faults, sessions, pendingPayments, msgs, tasks, rail, now,
                 lastToolCall>>

\* A remove whose update carries the friends map alone, to a store that
\* replaces the metadata: the lists of requests are gone with it.
handleRemoveFriend_OnlyFriends(u, aliasInput, storeUp) ==
  LET outcome(o, n) == [op |-> "removefriend", by |-> u, arg |-> aliasInput,
                        res |-> [outcome |-> o, updates |-> n]]
  IN IF ~HasUser(u)
     THEN call' = outcome("no_account", 0) /\ UNCHANGED profiles
     ELSE IF ~LookupTruthy(getUserByTelegramId(u).friends, aliasInput)
     THEN call' = outcome("not_found", 0) /\ UNCHANGED profiles
     ELSE IF ~storeUp
     THEN call' = outcome("failed", 0) /\ UNCHANGED profiles
     ELSE /\ profiles' = updateUserMetadata(u,
               [getUserByTelegramId(u) EXCEPT !.friends = DeleteKey(@, aliasInput),
                                              !.payment_requests_sent = <<>>,
                                              !.payment_requests_received = <<>>])
          /\ call' = outcome("removed", 1)

\* handleRemoveFriend(message, [aliasInput]) for message.from.id = u; the
\* outcome keeps the number of profile updates that were carried out
handleRemoveFriend(u, aliasInput, storeUp) ==
  LET outcome(o, n) == [op |-> "removefriend", by |-> u, arg |-> aliasInput,
                        res |-> [outcome |-> o, updates |-> n]]
  IN IF ~HasUser(u)
     THEN call' = outcome("no_account", 0) /\ UNCHANGED profiles
     ELSE IF ~LookupTruthy(getUserByTelegramId(u).friends, aliasInput)
     THEN call' = outcome("not_found", 0) /\ UNCHANGED profiles
     ELSE IF ~storeUp
     THEN call' = outcome("failed", 0) /\ UNCHANGED profiles
     ELSE /\ profiles' = updateUserMetadata(u,
               [getUserByTelegramId(u) EXCEPT !.friends = DeleteKey(@, aliasInput)])
          /\ call' = outcome("removed", 1)

RemoveFriend ==
  /\ \E u \in BookUsers :
     \E aliasInput \in AliasesOf(u) :
       \E storeUp \in IF HasUser(u) THEN BOOLEAN ELSE {TRUE} :
         handleRemoveFriend(u, aliasInput, storeUp)
  /\ UNCHANGED <<faults, sessions, pendingPayments, msgs, tasks, rail, now,
                 lastToolCall>>

\* resolveRecipient(raw, sender) on the current profiles; the outcome keeps
\* whether the call before was the same call, and the result of that call
Resolve ==
  /\ \E sender \in Registered \cup {NoSender}, raw \in ResolveInputs, storeUp \in BOOLEAN :
       LET again == /\ call.op = "resolve" /\ call.by = sender /\ call.arg = raw
                    /\ call.storeUp = storeUp
       IN call' = [op |-> "resolve", by |-> sender, arg |-> raw, storeUp |-> storeUp,
                   res |-> resolveRecipient(raw, sender, storeUp),
                   again |-> again,
                   before |-> IF again THEN call.res ELSE NoResult]
  /\ UNCHANGED <<faults, profiles, sessions, pendingPayments, msgs, tasks, rail, now,
                 lastToolCall>>

----------------------------------------------------------------------------
(* Button payloads and the numbers embedded in them *)

\* The first position of s that holds no "0" (Len(s) + 1 when all do)
FirstNonZero(s) ==
  IF \A i \in 1..Len(s) : s[i] = "0" THEN Len(s) + 1
  ELSE CHOOSE i \in 1..Len(s) : s[i] # "0" /\ \A j \in 1..(i - 1) : s[j] = "0"

\* d[.ddd]e<sign><exponent>, the form Number.prototype.toString takes below
\* 1e-6 and from 1e21 on
ExponentForm(digits, sign, exponent) ==
  <<Head(digits)>> \o (IF Len(digits) = 1 THEN <<>> ELSE <<".">> \o Tail(digits))
    \o <<"e", sign>> \o NatToString(exponent)

\* A printer that cuts the fraction after two decimals
NumberToString_TwoPlaces(v) ==
  IF v.nan THEN Str_NaN
  ELSE (IF v.neg THEN <<"-">> ELSE <<>>)
       \o (IF v.ip = <<>> THEN <<"0">> ELSE v.ip)
       \o <<".">> \o SubSeq(v.fp \o <<"0", "0">>, 1, 2)

\* String(v) for a JavaScript number v, as a template literal prints it:
\* "NaN", "0", the decimal digits for 1e-6 <= |v| < 1e21, and the exponent
\* form outside.
NumberToString(v) ==
  LET zeros == FirstNonZero(v.fp) - 1
      sign == IF v.neg THEN <<"-">> ELSE <<>>
  IN IF v.nan THEN Str_NaN
     ELSE IF IsZero(v) THEN <<"0">>
     ELSE IF v.ip = <<>> /\ zeros >= 6
     THEN sign \o ExponentForm(Substring(v.fp, zeros), "-", zeros + 1)
     ELSE IF Len(v.ip) > 21
     THEN sign \o ExponentForm(StripTrailingZeros(v.ip \o v.fp), "+", Len(v.ip) - 1)
     ELSE sign \o (IF v.ip = <<>> THEN <<"0">> ELSE v.ip)
               \o (IF v.fp = <<>> THEN <<>> ELSE <<".">> \o v.fp)

\* The positions of the separator in s, and the k-th of them (0 before the
\* first, Len(s) + 1 after the last).
SeparatorsOf(s, sep) == {i \in 1..Len(s) : s[i] = sep}

SeparatorAt(s, sep, k) ==
  LET at == SeparatorsOf(s, sep)
  IN IF k = 0 THEN 0
     ELSE IF k > Cardinality(at) THEN Len(s) + 1
     ELSE CHOOSE i \in at : Cardinality({j \in at : j < i}) = k - 1

\* s.split(sep) for a one-character separator
Split(s, sep) ==
  [k \in 1..Cardinality(SeparatorsOf(s, sep)) + 1 |->
     SubSeq(s, SeparatorAt(s, sep, k - 1) + 1, SeparatorAt(s, sep, k) - 1)]

\* `confirm_pay_${targetAddress}_${amount}_${currency}`
ConfirmData(targetAddress, amount, currency) ==
  Str_confirm \o <<"_">> \o Str_pay \o <<"_">> \o targetAddress \o <<"_">>
    \o NumberToString(amount) \o <<"_">> \o currency

\* 'cancel_payment'
CancelData == <<"c", "a", "n", "c", "e", "l", "_", "p", "a", "y", "m", "e", "n", "t">>

\* `pay_${paymentRequest.id}` and `decline_${paymentRequest.id}`
PayData(id) == Str_pay \o <<"_">> \o id

DeclineData(id) == <<"d", "e", "c", "l", "i", "n", "e", "_">> \o id

\* The callback handlers in registration order, each with its pattern;
\* handleCallbackQuery runs the first whose pattern the data starts with.
CallbackHandlers ==
  << [pattern |-> <<"q", "r", "_">>, handler |-> "handleQRCallback"],
     [pattern |-> Str_pay \o <<"_">>, handler |-> "handlePaymentCallback"],
     [pattern |-> <<"d", "e", "c", "l", "i", "n", "e", "_">>, handler |-> "handleDeclineCallback"],
     [pattern |-> Str_confirm \o <<"_">> \o Str_pay \o <<"_">>,
      handler |-> "handleConfirmPayCallback"],
     [pattern |-> CancelData, handler |-> "handleCancelPayCallback"] >>

HandlerFor(data) ==
  LET hits == {i \in 1..Len(CallbackHandlers) : StartsWith(data, CallbackHandlers[i].pattern)}
  IN IF hits = {} THEN "none"
     ELSE CallbackHandlers[CHOOSE i \in hits : \A j \in hits : i <= j].handler

----------------------------------------------------------------------------
(* The chat transport as the controller sees it.  msgs holds the messages   *)
(* sent with an inline keyboard: the chat, the buttons' callback data, the  *)
(* texts the message has shown in order, whether the keyboard is still on   *)
(* it, and the time it was sent.  Messages without a keyboard are kept in   *)
(* the outcome of the command that sent them.                               *)

\* The most keyboard messages, button presses, rail calls and payment
\* requests of a behaviour, the last instant of the clock, the most calls of
\* the transport that throw, and the most /pay and /request commands that
\* reach the rail or the store.
MaxPrompts == 1

MaxPresses == 2

MaxTransfers == 2

MaxRequests == 2

MaxTime == 3

MaxFaults == 2

MaxCommands == 2

\* sendMessage(chatId, text, { reply_markup: keyboard })
Prompt(chat, buttons) ==
  [chat |-> chat, buttons |-> buttons, kb |-> TRUE, shown |-> <<"prompt">>, t |-> now]

CurrentText(m) == msgs[m].shown[Len(msgs[m].shown)]

\* The texts that are the same whenever they are sent.
ConstantTexts == {"processing", "invalid", "noaccount", "badamount", "cancelled"}

\* An edit that changes nothing: the platform refuses it and editMessage
\* throws.
NotModified(m, text) == text \in ConstantTexts /\ CurrentText(m) = text

\* The outcomes a call of the transport can have: it works, or (while the
\* behaviour has faults left) it throws.
Transport == IF faults < MaxFaults THEN {TRUE, FALSE} ELSE {TRUE}

Fault(up) == IF up THEN faults ELSE faults + 1

\* An edit that takes the keyboard off every message of the chat
editMessage_WholeChat(m, text) ==
  [k \in DOMAIN msgs |->
     IF k = m THEN [msgs[k] EXCEPT !.shown = Append(@, text), !.kb = FALSE]
     ELSE IF msgs[k].chat = msgs[m].chat THEN [msgs[k] EXCEPT !.kb = FALSE]
     ELSE msgs[k]]

\* editMessage(chatId, messageId, text) without reply_markup: the text is
\* replaced and the inline keyboard removed.
editMessage(m, text) ==
  [msgs EXCEPT ![m].shown = Append(@, text), ![m].kb = FALSE]

\* A session store that keeps the session a user already has.
setUserSession_KeepsFirst(userId, sessionData) ==
  [u \in DOMAIN sessions \cup {userId} |->
     IF u = userId /\ userId \notin DOMAIN sessions THEN sessionData ELSE sessions[u]]

\* setUserSession(userId, sessionData) / clearUserSession(userId)
setUserSession(userId, sessionData) ==
  [u \in DOMAIN sessions \cup {userId} |->
     IF u = userId THEN sessionData ELSE sessions[u]]

clearUserSession(userId) == [u \in DOMAIN sessions \ {userId} |-> sessions[u]]

\* handleTextMessage: session && session.waitingFor
HasSession(userId) == userId \in DOMAIN sessions

----------------------------------------------------------------------------
(* services/arcService.js: sendUSDCPayment, as a log of its invocations *)

\* success; InsufficientFundsError thrown; ARCError thrown
RailOutcomes == {"success", "insufficient", "error"}

Transfer(key, to, amount, via, task, result) ==
  [key |-> key, to |-> to, amount |-> amount, via |-> via, task |-> task,
   result |-> result]

\* error.message of what sendUSDCPayment throws (InsufficientFundsError,
\* ARCError), and of what a call of the transport throws
ErrorMessage(thrown) ==
  CASE thrown = "insufficient" -> "Insufficient USDC funds. Required: 5, Available: 0"
    [] thrown = "error" -> "Transaction failed: 0"
    [] OTHER -> "Bad Request"

----------------------------------------------------------------------------
(* controllers/botController.js: the commands and messages that lead to a   *)
(* payment.  Each is one action; `call` keeps its outcome.                  *)

\* The ids of the requests in a list of requests
IdsIn(requests) == {requests[k].id : k \in 1..Len(requests)}

\* The ids of the requests stored in some list of some profile
RequestIds ==
  UNION {IdsIn(profiles[u].payment_requests_sent)
           \cup IdsIn(profiles[u].payment_requests_received) : u \in DOMAIN profiles}

RequestsStored == Cardinality(RequestIds)

PayUsers == {U1, U3}

PayArgs ==
  {<<<<"@">> \o Str_bobby, <<"5">>>>, <<Addr("c"), <<"0">>>>, <<Str_bob, <<"5">>>>,
   <<<<"@">> \o Str_bobby>>}

\* A /pay whose notice to the recipient is sent outside any try block of its
\* own: a notice that fails ends in the catch of the command.
handlePay_NoticeUncaught(u, args, railOutcome, notifyUp) ==
  LET amount == parseFloat(args[2])
      resolved == resolveRecipient(args[1], u, TRUE)
      outcome(o, n) == [op |-> "pay", by |-> u, arg |-> <<>>,
                        res |-> [outcome |-> o, notice |-> n]]
      silent(o) == /\ call' = outcome(o, "none")
                   /\ notifyUp
                   /\ UNCHANGED <<rail, faults>>
  IN IF Len(args) < 2 THEN silent("usage")
     ELSE IF ~isValidAmount(amount) THEN silent("invalid_amount")
     ELSE IF ~HasUser(u) THEN silent("no_account")
     ELSE IF resolved.diverges THEN silent("hangs")
     ELSE IF ~resolved.found THEN silent("not_found")
     ELSE /\ rail' = Append(rail,
                       Transfer(getUserByTelegramId(u).arc_private_key,
                                resolved.address, amount, "handlePay", 0, railOutcome))
          /\ IF railOutcome = "success" /\ resolved.telegramId # <<>>
             THEN /\ faults' = Fault(notifyUp)
                  /\ call' = IF notifyUp THEN outcome("sent", "sent")
                             ELSE outcome("error", "failed")
             ELSE /\ notifyUp
                  /\ faults' = faults
                  /\ call' = outcome(IF railOutcome = "success" THEN "sent"
                                     ELSE railOutcome, "none")

\* handlePay(message, args) for message.from.id = u: the rail is called as
\* soon as the recipient resolves; the recipient is told when the transfer
\* succeeded and the recipient is a user.
handlePay(u, args, railOutcome, notifyUp) ==
  LET amount == parseFloat(args[2])
      resolved == resolveRecipient(args[1], u, TRUE)
      outcome(o, n) == [op |-> "pay", by |-> u, arg |-> <<>>,
                        res |-> [outcome |-> o, notice |-> n]]
      silent(o) == /\ call' = outcome(o, "none")
                   /\ notifyUp
                   /\ UNCHANGED <<rail, faults>>
  IN IF Len(args) < 2 THEN silent("usage")
     ELSE IF ~isValidAmount(amount) THEN silent("invalid_amount")
     ELSE IF ~HasUser(u) THEN silent("no_account")
     ELSE IF resolved.diverges THEN silent("hangs")
     ELSE IF ~resolved.found THEN silent("not_found")
     ELSE /\ rail' = Append(rail,
                       Transfer(getUserByTelegramId(u).arc_private_key,
                                resolved.address, amount, "handlePay", 0, railOutcome))
          /\ IF railOutcome = "success" /\ resolved.telegramId # <<>>
             THEN /\ faults' = Fault(notifyUp)
                  /\ call' = outcome("sent", IF notifyUp THEN "sent" ELSE "failed")
             ELSE /\ notifyUp
                  /\ faults' = faults
                  /\ call' = outcome(IF railOutcome = "success" THEN "sent"
                                     ELSE railOutcome, "none")

Pay ==
  /\ Len(rail) < MaxTransfers
  /\ Len(rail) + RequestsStored < MaxCommands
  /\ \E u \in PayUsers, args \in PayArgs :
       \E railOutcome \in RailOutcomes, notifyUp \in Transport :
         handlePay(u, args, railOutcome, notifyUp)
  /\ UNCHANGED <<profiles, sessions, pendingPayments, msgs, tasks, now,
                 lastToolCall>>

\* A payment link parameter: pay_<address>[_<amount>]
PayLink(address, amount) ==
  Str_pay \o <<"_">> \o address \o (IF amount = <<>> THEN <<>> ELSE <<"_">> \o amount)

DeepLinkParams ==
  {PayLink(Addr("b"), <<"5">>), PayLink(Addr("c"), <<>>), PayLink(Addr("d"), <<>>)}

\* handlePaymentDeepLink(message, paymentParam) for message.from.id = u; the
\* outcome keeps the address of the session that setUserSession replaced
handlePaymentDeepLink(u, paymentParam) ==
  LET parts == Split(paymentParam, "_")
      targetAddress == parts[2]
      amount == IF Len(parts) >= 3 THEN parseFloat(parts[3]) ELSE NaN
      currency == IF Len(parts) >= 4 THEN ToUpperCase(parts[4]) ELSE Str_USDC
      outcome(o) ==
        [op |-> "deeplink", by |-> u, arg |-> paymentParam,
         res |-> [outcome |-> o,
                  replaced |-> IF HasSession(u) /\ o = "ask_amount"
                               THEN sessions[u].paymentData.targetAddress ELSE <<>>]]
      silent(o) == call' = outcome(o) /\ UNCHANGED <<msgs, sessions>>
  IN IF Len(parts) < 2 THEN silent("invalid_link")
     ELSE IF currency # Str_USDC THEN silent("invalid_currency")
     ELSE IF ~HasUser(u) THEN silent("no_account")
     ELSE IF Len(parts) >= 3 /\ ~IsFalsy(amount) /\ IsPositive(amount)
     THEN /\ msgs' = Append(msgs, Prompt(u,
                       <<ConfirmData(targetAddress, amount, currency), CancelData>>))
          /\ call' = outcome("prompt")
          /\ UNCHANGED sessions
     ELSE /\ sessions' = setUserSession(u,
                           [waitingFor |-> "payment_amount",
                            paymentData |-> [targetAddress |-> targetAddress,
                                             currency |-> currency,
                                             type |-> "deeplink"],
                            lastActivity |-> now])
          /\ call' = outcome("ask_amount")
          /\ UNCHANGED msgs

DeepLink ==
  /\ Len(msgs) < MaxPrompts
  /\ \E u \in PayUsers, paymentParam \in DeepLinkParams :
       handlePaymentDeepLink(u, paymentParam)
  /\ UNCHANGED <<faults, profiles, pendingPayments, tasks, rail, now,
                 lastToolCall>>

\* Payment links with amounts, to different addresses for different
\* amounts (the last to a string that is no address, for an amount above the
\* maximum), and the most prompts that are outstanding when a user follows
\* one link after another.
PairTickets ==
  {[address |-> Addr("b"), amount |-> <<"5">>],
   [address |-> Addr("c"), amount |-> <<"7">>],
   [address |-> <<"0", "x", "c">>, amount |-> <<"1">> \o Rep("0", 13)]}

MaxOutstanding == 2

\* handlePaymentDeepLink for a link followed while a prompt may be waiting
LinkAfterLink ==
  /\ Len(msgs) < MaxOutstanding
  /\ \E u \in PayUsers, ticket \in PairTickets :
       handlePaymentDeepLink(u, PayLink(ticket.address, ticket.amount))
  /\ UNCHANGED <<faults, profiles, pendingPayments, tasks, rail, now,
                 lastToolCall>>

AmountTexts == {<<"5">>, <<"a", "b", "c">>, <<"0">>}

\* handlePaymentAmountInput(message, text) for message.from.id = u, reached
\* from handleTextMessage when the session of u waits for a payment amount
handlePaymentAmountInput(u, text) ==
  LET session == sessions[u]
      amount == parseFloat(text)
      outcome(o) == [op |-> "amount", by |-> u, arg |-> text, res |-> [outcome |-> o]]
  IN IF ~isValidAmount(amount)
     THEN call' = outcome("invalid_amount") /\ UNCHANGED <<msgs, sessions>>
     ELSE /\ sessions' = clearUserSession(u)
          /\ IF ~HasUser(u)
             THEN call' = outcome("went_wrong") /\ UNCHANGED msgs
             ELSE /\ msgs' = Append(msgs, Prompt(u,
                               <<ConfirmData(session.paymentData.targetAddress, amount,
                                             session.paymentData.currency),
                                 CancelData>>))
                  /\ call' = outcome("prompt")

AmountInput ==
  /\ Len(msgs) < MaxPrompts
  /\ \E u \in PayUsers, text \in AmountTexts :
       /\ HasSession(u) /\ sessions[u].waitingFor = "payment_amount"
       /\ handlePaymentAmountInput(u, text)
  /\ UNCHANGED <<faults, profiles, pendingPayments, tasks, rail, now,
                 lastToolCall>>

\* The arguments of the make_payment tool calls the agent may decide on
AgentCalls ==
  {[recipient |-> r, amount |-> parseFloat(a)] :
     r \in {<<"@">> \o Str_bobby, Str_bob}, a \in {<<"5">>}}

\* module.exports of services/agentService.js
AgentServiceExports == {"createAgentService", "runAgentMock"}

\* _handleAgentResult(message, user, agentResult) for a make_payment tool
\* call and message.from.id = u, with _sendPaymentConfirmation
handleAgentResult(u, agentResult) ==
  LET resolved == resolveRecipient(agentResult.recipient, u, TRUE)
      outcome(o) == [op |-> "agent", by |-> u, arg |-> <<>>, res |-> [outcome |-> o]]
      silent(o) == call' = outcome(o) /\ UNCHANGED msgs
  IN IF ~isValidAmount(agentResult.amount) THEN silent("invalid_amount")
     ELSE IF resolved.diverges THEN silent("hangs")
     ELSE IF ~resolved.found THEN silent("resolve_error")
     ELSE /\ msgs' = Append(msgs, Prompt(u,
                       <<ConfirmData(resolved.address, agentResult.amount, Str_USDC),
                         CancelData>>))
          /\ call' = outcome("prompt")

\* handleDefaultMessage(message) for message.from.id = u.  The controller
\* takes runAgent from require('../services/agentService'), which exports
\* no such name: for a user with an account `await runAgent(text, user)`
\* throws a TypeError, and the catch sends 'Something went wrong'.
handleDefaultMessage(u, agentResult) ==
  LET outcome(o) == [op |-> "agent", by |-> u, arg |-> <<>>, res |-> [outcome |-> o]]
  IN IF ~HasUser(u) THEN call' = outcome("no_account") /\ UNCHANGED msgs
     ELSE IF "runAgent" \notin AgentServiceExports
     THEN call' = outcome("went_wrong") /\ UNCHANGED msgs
     ELSE handleAgentResult(u, agentResult)

DefaultMessage ==
  /\ Len(msgs) < MaxPrompts
  /\ \E u \in PayUsers, agentResult \in AgentCalls :
       /\ ~HasSession(u)
       /\ handleDefaultMessage(u, agentResult)
  /\ UNCHANGED <<faults, profiles, sessions, pendingPayments, tasks, rail, now,
                 lastToolCall>>

----------------------------------------------------------------------------
(* Payment requests: handleRequest and auth0Service.createPaymentRequest *)

\* expires_at - created_at of a stored request (24 hours), in clock ticks
RequestWindow == 2

RequestArgs ==
  {<<<<"@">> \o Str_bobby, <<"5">>>>, <<<<"@">> \o Str_alice, <<"5">>>>,
   <<Addr("c"), <<"5">>>>}

\* `req_${Date.now()}_${random}`: a fresh id
NewRequestId == <<"r", "e", "q", "_", DigitSeq[RequestsStored + 2], "_", "x">>

\* The request createPaymentRequest builds
RequestData(from, to, amount, currency) ==
  [id |-> NewRequestId, from |-> from, to |-> to, amount |-> amount,
   currency |-> currency, status |-> "pending",
   created_at |-> now, expires_at |-> now + RequestWindow]

\* createPaymentRequest(fromTelegramId, toTelegramId, amount, currency): the
\* profiles after `updates` of its two updates succeeded.  Both profiles are
\* read before the first update, each into an object of its own.  The store
\* merges the keys of an update into the stored user_metadata, and the
\* second update carries every key the profile had when it was read: its
\* list of sent requests too, unless the profile had none then (a profile
\* is created without the two lists, and an absent list is the empty one
\* here, a list never becoming empty again).
createPaymentRequest(from, to, amount, currency, updates) ==
  LET requestData == RequestData(from, to, amount, currency)
      fromUser == getUserByTelegramId(from)
      toUser == getUserByTelegramId(to)
      first == updateUserMetadata(from,
                 [fromUser EXCEPT !.payment_requests_sent = Append(@, requestData)])
  IN IF ~HasUser(from) \/ ~HasUser(to) \/ updates = 0 THEN profiles
     ELSE IF updates = 1 THEN first
     ELSE [first EXCEPT ![to] =
             [toUser EXCEPT
                !.payment_requests_received = Append(@, requestData),
                !.payment_requests_sent =
                   IF @ = <<>> THEN first[to].payment_requests_sent ELSE @]]

\* handleRequest(message, args) for message.from.id = u; the outcome keeps
\* whether createPaymentRequest returned, and the request then; the audit call
\* after the two messages reads the undeclared name requestId and throws
\* into the inner catch, which reports that the request could not be sent
handleRequest(u, args, updates, sendUp) ==
  LET amount == parseFloat(args[2])
      resolved == resolveRecipient(args[1], u, TRUE)
      result(o, created) ==
        [op |-> "request", by |-> u, arg |-> <<>>,
         res |-> [outcome |-> o, created |-> created,
                  id |-> IF created THEN NewRequestId ELSE <<>>,
                  to |-> IF created THEN resolved.telegramId ELSE <<>>]]
      outcome(o) == result(o, updates = 2)
      silent(o) == /\ call' = result(o, FALSE)
                   /\ updates = 2 /\ sendUp
                   /\ UNCHANGED <<profiles, msgs, faults>>
  IN IF Len(args) < 2 THEN silent("usage")
     ELSE IF ~isValidAmount(amount) THEN silent("invalid_amount")
     ELSE IF ~HasUser(u) THEN silent("no_account")
     ELSE IF resolved.diverges THEN silent("hangs")
     ELSE IF ~resolved.found \/ resolved.telegramId = <<>> THEN silent("not_found")
     ELSE /\ profiles' = createPaymentRequest(u, resolved.telegramId, amount,
                                              Str_USDC, updates)
          /\ IF updates < 2
             THEN /\ sendUp
                  /\ call' = outcome("failed")
                  /\ UNCHANGED <<msgs, faults>>
             ELSE /\ faults' = Fault(sendUp)
                  /\ msgs' = IF sendUp
                             THEN Append(msgs, Prompt(resolved.telegramId,
                                    <<PayData(NewRequestId), DeclineData(NewRequestId)>>))
                             ELSE msgs
                  /\ call' = outcome(IF sendUp THEN "sent_then_could_not_send"
                                     ELSE "could_not_send")

\* The notices handleRequest has sent to the requester when it ends with
\* the given outcome, once the request is stored: 'Payment request sent'
\* after the message to the payer, 'Could not send request' from the inner
\* catch, 'Failed to send request' from the outer one.
RequesterNotices(outcome) ==
  CASE outcome = "sent_then_could_not_send" -> <<"request_sent", "could_not_send">>
    [] outcome = "could_not_send" -> <<"could_not_send">>
    [] outcome = "failed" -> <<"failed_to_send">>
    [] OTHER -> <<outcome>>

Request ==
  /\ RequestsStored < MaxRequests
  /\ Len(rail) + RequestsStored < MaxCommands
  /\ \E args \in RequestArgs, updates \in 0..2, sendUp \in Transport :
       handleRequest(U1, args, updates, sendUp)
  /\ UNCHANGED <<sessions, pendingPayments, tasks, rail, now,
                 lastToolCall>>

----------------------------------------------------------------------------
(* Button presses.  tasks holds the callback queries received: the handler  *)
(* handleCallbackQuery chose, the data, the message, the sender, the time   *)
(* of the press, and where the handler stands between its awaits.           *)

\* A user presses a button of a message that still shows its keyboard, and
\* handleCallbackQuery starts the handler of the data.
Press ==
  /\ Len(tasks) < MaxPresses
  /\ \E m \in 1..Len(msgs), b \in 1..2 :
       /\ msgs[m].kb
       /\ tasks' = Append(tasks,
                     [handler |-> HandlerFor(msgs[m].buttons[b]),
                      data |-> msgs[m].buttons[b], msg |-> m, from |-> msgs[m].chat,
                      at |-> now, pc |-> "start", edit |-> "none", scope |-> "none",
                      notice |-> "none", steps |-> <<>>])
  /\ UNCHANGED <<faults, profiles, sessions, pendingPayments, msgs, rail, now, call,
                 lastToolCall>>

\* A press in a chat with several members: any of them presses a button of a
\* message that still shows its keyboard; query.from.id is the presser,
\* whoever the message was produced for.
PressBy ==
  /\ Len(tasks) < MaxPresses
  /\ \E m \in 1..Len(msgs), b \in 1..2, presser \in TelegramIds :
       /\ msgs[m].kb
       /\ tasks' = Append(tasks,
                     [handler |-> HandlerFor(msgs[m].buttons[b]),
                      data |-> msgs[m].buttons[b], msg |-> m, from |-> presser,
                      at |-> now, pc |-> "start", edit |-> "none", scope |-> "none",
                      notice |-> "none", steps |-> <<>>])
  /\ UNCHANGED <<faults, profiles, sessions, pendingPayments, msgs, rail, now, call,
                 lastToolCall>>

At(i, handler, pc) ==
  i \in 1..Len(tasks) /\ tasks[i].handler = handler /\ tasks[i].pc = pc

\* The next edit of task i: the text, and the try block it is made in.
Editing(i, text, scope) ==
  [tasks EXCEPT ![i].pc = "edit", ![i].edit = text, ![i].scope = scope]

\* `Payment failed: ${paymentError.message}`, the text of both catch blocks
\* of handleConfirmPayCallback
PaymentFailedText(message) == "Payment failed: " \o message

\* The calls task i has made so far, with one more
Did(i, step) == [tasks EXCEPT ![i].steps = Append(@, step)]

\* handleConfirmPayCallback: answerCallbackQuery(query.id, ...).  The query
\* is answered; or the platform refuses the answer as too late, which
\* answerCallbackQuery logs and returns from; or the call throws, and the
\* outer catch edits the prompt.
ConfirmAnswer ==
  \E i \in 1..Len(tasks) :
    /\ At(i, "handleConfirmPayCallback", "start")
    /\ \E up \in Transport, answer \in {"answer", "answer_too_old", "answer_thrown"} :
         /\ up <=> (answer = "answer")
         /\ faults' = Fault(up)
         /\ tasks' = [Did(i, answer) EXCEPT
                        ![i].pc = "edit",
                        ![i].edit = IF answer = "answer_thrown"
                                    THEN PaymentFailedText(ErrorMessage("transport"))
                                    ELSE "processing",
                        ![i].scope = IF answer = "answer_thrown" THEN "outercatch"
                                     ELSE "outer"]
    /\ UNCHANGED <<profiles, sessions, pendingPayments, msgs, rail, now, call,
                   lastToolCall>>

\* handleConfirmPayCallback: one of its editMessage calls.  After the
\* "processing" edit the data is split; an edit that throws inside the inner
\* try goes to its catch, which edits again; one that throws elsewhere goes
\* to the outer catch, and from there out of the handler.
ConfirmEdit ==
  \E i \in 1..Len(tasks) :
    /\ At(i, "handleConfirmPayCallback", "edit")
    /\ \E up \in Transport :
         LET task == tasks[i]
             thrown == ~up \/ NotModified(task.msg, task.edit)
         IN /\ faults' = Fault(up)
            /\ msgs' = IF thrown THEN msgs ELSE editMessage(task.msg, task.edit)
            /\ tasks' =
                 IF ~thrown /\ task.edit = "processing"
                 THEN IF Len(Split(task.data, "_")) < 5
                      THEN [Did(i, "processing") EXCEPT
                              ![i].edit = "invalid", ![i].scope = "outer"]
                      ELSE [Did(i, "processing") EXCEPT ![i].pc = "getUser"]
                 ELSE IF thrown
                 THEN IF task.scope = "inner"
                      THEN Editing(i, PaymentFailedText(ErrorMessage("transport")),
                                   "innercatch")
                      ELSE IF task.scope \in {"outer", "innercatch"}
                      THEN Editing(i, PaymentFailedText(ErrorMessage("transport")),
                                   "outercatch")
                      ELSE [tasks EXCEPT ![i].pc = "rejected"]
                 ELSE [tasks EXCEPT ![i].pc = "done"]
    /\ UNCHANGED <<profiles, sessions, pendingPayments, rail, now, call,
                   lastToolCall>>

\* const amount = parseFloat(parts[3]) || null;  !amount || amount <= 0
ConfirmAmount(data) == parseFloat(Split(data, "_")[4])

\* The payload of the confirm button for an address and the text of an
\* amount, and what handleConfirmPayCallback reads from a payload:
\* parts[2], parseFloat(parts[3]) || null (null is kept as NaN, both being
\* falsy and compared with nothing else), parts[4].toUpperCase()
PayloadInputs ==
  {<<address, text>> :
     address \in AddressInputs,
     text \in AmountInputs
              \cup {<<"5", "e", "-", "7">>, <<"0", ".", "0", "0", "0", "0", "0", "0", "5">>,
                    <<"2", ".", "5", "E", "+", "2">>, <<"1", "2", "e", "3">>,
                    <<"0", ".", "0", "0", "0", "0", "0", "0", "1", "2">>}}

EvalConfirmData ==
  /\ call.op = "payload_input"
  /\ call' = [call EXCEPT
                !.op = "ConfirmData",
                !.res = [data |-> ConfirmData(call.arg[1], parseFloat(call.arg[2]),
                                              Str_USDC)]]
  /\ UNCHANGED <<faults, profiles, sessions, pendingPayments, msgs, tasks, rail, now,
                 lastToolCall>>

EvalConfirmParse ==
  /\ call.op = "ConfirmData"
  /\ LET parts == Split(call.res.data, "_")
     IN call' = [call EXCEPT
                   !.op = "confirm_parse",
                   !.res = IF Len(parts) < 5
                           THEN [data |-> call.res.data, invalid |-> TRUE,
                                 targetAddress |-> <<>>, amount |-> NaN,
                                 currency |-> <<>>]
                           ELSE [data |-> call.res.data, invalid |-> FALSE,
                                 targetAddress |-> parts[3],
                                 amount |-> IF IsFalsy(ConfirmAmount(call.res.data))
                                            THEN NaN ELSE ConfirmAmount(call.res.data),
                                 currency |-> ToUpperCase(parts[5])]]
  /\ UNCHANGED <<faults, profiles, sessions, pendingPayments, msgs, tasks, rail, now,
                 lastToolCall>>

\* handleConfirmPayCallback: getUserByTelegramId(userId) and the checks of
\* the user and the amount
ConfirmGetUser ==
  \E i \in 1..Len(tasks) :
    /\ At(i, "handleConfirmPayCallback", "getUser")
    /\ tasks' = IF ~HasUser(tasks[i].from) THEN Editing(i, "noaccount", "outer")
                  ELSE IF \/ IsFalsy(ConfirmAmount(tasks[i].data))
                          \/ ~IsPositive(ConfirmAmount(tasks[i].data))
                  THEN Editing(i, "badamount", "outer")
                  ELSE [tasks EXCEPT ![i].pc = "rail"]
    /\ UNCHANGED <<faults, profiles, sessions, pendingPayments, msgs, rail, now, call,
                   lastToolCall>>

\* A handler that calls the rail again when the call has thrown
ConfirmRail_Retries ==
  \E i \in 1..Len(tasks) :
    /\ At(i, "handleConfirmPayCallback", "rail")
    /\ Len(rail) < MaxTransfers
    /\ \E result \in RailOutcomes :
         /\ rail' = Append(rail,
                      Transfer(getUserByTelegramId(tasks[i].from).arc_private_key,
                               Split(tasks[i].data, "_")[3],
                               ConfirmAmount(tasks[i].data),
                               "handleConfirmPayCallback", i, result))
         /\ tasks' = [Did(i, "rail") EXCEPT
                        ![i].pc = IF result = "success" THEN "edit" ELSE "rail",
                        ![i].edit = IF result = "success" THEN "sent"
                                    ELSE PaymentFailedText(ErrorMessage(result)),
                        ![i].scope = IF result = "success" THEN "inner"
                                     ELSE "innercatch"]
    /\ UNCHANGED <<faults, profiles, sessions, pendingPayments, msgs, now, call,
                   lastToolCall>>

\* A handler that signs with the key of the user the prompt was sent to
ConfirmRail_KeyOfChat ==
  \E i \in 1..Len(tasks) :
    /\ At(i, "handleConfirmPayCallback", "rail")
    /\ Len(rail) < MaxTransfers
    /\ \E result \in RailOutcomes :
         /\ rail' = Append(rail,
                      Transfer(getUserByTelegramId(msgs[tasks[i].msg].chat).arc_private_key,
                               Split(tasks[i].data, "_")[3],
                               ConfirmAmount(tasks[i].data),
                               "handleConfirmPayCallback", i, result))
         /\ tasks' = [Did(i, "rail") EXCEPT
                        ![i].pc = "edit",
                        ![i].edit = IF result = "success" THEN "sent"
                                    ELSE PaymentFailedText(ErrorMessage(result)),
                        ![i].scope = IF result = "success" THEN "inner"
                                     ELSE "innercatch"]
    /\ UNCHANGED <<faults, profiles, sessions, pendingPayments, msgs, now, call,
                   lastToolCall>>

\* handleConfirmPayCallback: arcService.sendUSDCPayment(key, targetAddress,
\* amount), then the receipt, or the failure text of the inner catch
ConfirmRail ==
  \E i \in 1..Len(tasks) :
    /\ At(i, "handleConfirmPayCallback", "rail")
    /\ Len(rail) < MaxTransfers
    /\ \E result \in RailOutcomes :
         /\ rail' = Append(rail,
                      Transfer(getUserByTelegramId(tasks[i].from).arc_private_key,
                               Split(tasks[i].data, "_")[3],
                               ConfirmAmount(tasks[i].data),
                               "handleConfirmPayCallback", i, result))
         /\ tasks' = [Did(i, "rail") EXCEPT
                        ![i].pc = "edit",
                        ![i].edit = IF result = "success" THEN "sent"
                                    ELSE PaymentFailedText(ErrorMessage(result)),
                        ![i].scope = IF result = "success" THEN "inner"
                                     ELSE "innercatch"]
    /\ UNCHANGED <<faults, profiles, sessions, pendingPayments, msgs, now, call,
                   lastToolCall>>

\* handleCancelPayCallback: answerCallbackQuery; a throw is logged
CancelAnswer ==
  \E i \in 1..Len(tasks) :
    /\ At(i, "handleCancelPayCallback", "start")
    /\ tasks' = Editing(i, "cancelled", "cancel")
    /\ UNCHANGED <<faults, profiles, sessions, pendingPayments, msgs, rail, now, call,
                   lastToolCall>>

\* handleCancelPayCallback: editMessage(..., 'Payment cancelled'); a throw
\* is logged
CancelEdit ==
  \E i \in 1..Len(tasks) :
    /\ At(i, "handleCancelPayCallback", "edit")
    /\ \E up \in Transport :
         /\ faults' = Fault(up)
         /\ msgs' = IF ~up \/ NotModified(tasks[i].msg, tasks[i].edit) THEN msgs
                    ELSE editMessage(tasks[i].msg, tasks[i].edit)
    /\ tasks' = [tasks EXCEPT ![i].pc = "done"]
    /\ UNCHANGED <<profiles, sessions, pendingPayments, rail, now, call,
                   lastToolCall>>

\* this.pendingPayments.delete(requestId)
DeletePending(requestId) ==
  [r \in DOMAIN pendingPayments \ {requestId} |-> pendingPayments[r]]

\* handlePaymentCallback(query, data)
PaymentCallback ==
  \E i \in 1..Len(tasks) :
    /\ At(i, "handlePaymentCallback", "start")
    /\ LET requestId == Substring(tasks[i].data, 4)
           found == requestId \in DOMAIN pendingPayments
           request == pendingPayments[requestId]
       IN IF ~found \/ request.payer # tasks[i].from \/ ~HasUser(tasks[i].from)
          THEN UNCHANGED <<faults, pendingPayments, msgs, rail>>
          ELSE /\ Len(rail) < MaxTransfers
               /\ \E result \in RailOutcomes, up \in Transport :
                    /\ faults' = Fault(result # "success" \/ up)
                    /\ rail' = Append(rail,
                                 Transfer(getUserByTelegramId(tasks[i].from).arc_private_key,
                                          request.requesterAddress, request.amount,
                                          "handlePaymentCallback", i, result))
                    /\ msgs' = IF result = "success" /\ up
                               THEN editMessage(tasks[i].msg, "completed") ELSE msgs
                    /\ pendingPayments' = IF result = "success" /\ up
                                          THEN DeletePending(requestId)
                                          ELSE pendingPayments
    /\ tasks' = [tasks EXCEPT ![i].pc = "done"]
    /\ UNCHANGED <<profiles, sessions, now, call,
                   lastToolCall>>

\* handleDeclineCallback(query, data): for a request found in
\* pendingPayments with the presser as payer, the message is edited, the
\* requester is sent the notice and the entry is deleted; a call that throws
\* ends the handler there.  Otherwise the handler does nothing.
DeclineCallback ==
  \E i \in 1..Len(tasks) :
    /\ At(i, "handleDeclineCallback", "start")
    /\ LET requestId == Substring(tasks[i].data, 8)
           found == requestId \in DOMAIN pendingPayments
       IN IF found /\ pendingPayments[requestId].payer = tasks[i].from
          THEN \E editUp \in Transport, noticeUp \in BOOLEAN :
                 /\ editUp \/ noticeUp
                 /\ faults' = Fault(editUp /\ noticeUp)
                 /\ msgs' = IF editUp THEN editMessage(tasks[i].msg, "declined") ELSE msgs
                 /\ pendingPayments' = IF editUp /\ noticeUp
                                       THEN DeletePending(requestId)
                                       ELSE pendingPayments
                 /\ tasks' = [tasks EXCEPT
                                ![i].pc = "done",
                                ![i].notice = IF editUp /\ noticeUp THEN "declined"
                                              ELSE "none"]
          ELSE /\ tasks' = [tasks EXCEPT ![i].pc = "done"]
               /\ UNCHANGED <<faults, pendingPayments, msgs>>
    /\ UNCHANGED <<profiles, sessions, rail, now, call,
                   lastToolCall>>

----------------------------------------------------------------------------
(* /addfriend handlers running side by side.  The transport starts a handler *)
(* for every message without waiting for the one before, so a handler's     *)
(* profile read and its profile update are two steps with other handlers'   *)
(* steps between them.  tasks holds the handlers that have read.            *)

\* The most handlers of a behaviour, and what they are asked to add
MaxHandlers == 2

RaceAliases == {Str_bob, Str_b2}

RaceTargets == {<<"@">> \o Str_bobby, Addr("c")}

\* handleAddFriend up to its update: the profile is read, the alias looked
\* up in the profile read, and friends[alias] assigned in it
AddFriendRead ==
  /\ Len(tasks) < MaxHandlers
  /\ \E u \in Registered, aliasInput \in RaceAliases, friendInput \in RaceTargets :
       LET user == getUserByTelegramId(u)
           parsed == parseRecipient(friendInput)
           exists == LookupTruthy(user.friends, aliasInput)
       IN tasks' = Append(tasks,
                     [handler |-> "handleAddFriend",
                      pc |-> IF exists THEN "done" ELSE "update",
                      outcome |-> IF exists THEN "exists" ELSE "none",
                      from |-> u, alias |-> aliasInput, target |-> friendInput,
                      metadata |-> IF exists THEN user
                                   ELSE [user EXCEPT
                                           !.friends = SetKey(@, aliasInput, parsed.type,
                                                              parsed.value)]])
  /\ UNCHANGED <<faults, profiles, sessions, pendingPayments, msgs, rail, now, call,
                 lastToolCall>>

\* handleAddFriend: updateUserMetadata(user.user_id, {...currentMetadata,
\* friends}) arrives at the store, or fails
AddFriendUpdate ==
  /\ \E i \in 1..Len(tasks), storeUp \in BOOLEAN :
       /\ At(i, "handleAddFriend", "update")
       /\ profiles' = IF storeUp THEN updateUserMetadata(tasks[i].from, tasks[i].metadata)
                      ELSE profiles
       /\ tasks' = [tasks EXCEPT ![i].pc = "done",
                                 ![i].outcome = IF storeUp THEN "added" ELSE "failed"]
  /\ UNCHANGED <<faults, sessions, pendingPayments, msgs, rail, now, call,
                 lastToolCall>>

----------------------------------------------------------------------------
(* services/agentService.js: the agent that createAgentService builds and   *)
(* the runAgent it returns.  The three tools write one variable of the      *)
(* closure, lastToolCall, which every run of the agent reads and resets.    *)
(* tasks holds the runs: the user, what the agent decides for the text of   *)
(* the run, where the run stands, and what it returned.                     *)

\* let lastToolCall = null
NoToolCall == [type |-> "none"]

\* { type: 'tool_call', toolName, arguments }
ToolCall(toolName, arguments) ==
  [type |-> "tool_call", toolName |-> toolName, arguments |-> arguments]

\* { type: 'chat_response', content }
ChatResponse == [type |-> "chat_response"]

\* What the agent decides for a text: a make_payment call, a call of
\* get_transaction_history (no arguments), or an answer without a tool
AgentDecisions ==
  {ToolCall("make_payment", a) : a \in AgentCalls}
    \cup {ToolCall("get_transaction_history", [recipient |-> <<>>, amount |-> NaN]),
          NoToolCall}

\* runAgent(text, user): run(arcAssistant, text) is started
RunAgent ==
  /\ Len(tasks) < MaxHandlers
  /\ \E u \in Registered, decision \in AgentDecisions :
       tasks' = Append(tasks,
                  [handler |-> "runAgent", pc |-> "run", from |-> u,
                   decision |-> decision, result |-> NoToolCall])
  /\ UNCHANGED <<faults, profiles, sessions, pendingPayments, msgs, rail, now, call,
                 lastToolCall>>

\* The execute function of the tool the agent has decided on:
\* lastToolCall = { type: 'tool_call', ... }; the run then goes on to the
\* final output of the agent
ToolExecute ==
  /\ \E i \in 1..Len(tasks) :
       /\ At(i, "runAgent", "run")
       /\ tasks[i].decision # NoToolCall
       /\ lastToolCall' = tasks[i].decision
       /\ tasks' = [tasks EXCEPT ![i].pc = "executed"]
  /\ UNCHANGED <<faults, profiles, sessions, pendingPayments, msgs, rail, now, call>>

\* run() has returned: getLastToolCall() gives the tool call held by
\* lastToolCall and resets it, or null, and then runAgent returns the chat
\* response
RunReturns ==
  /\ \E i \in 1..Len(tasks) :
       /\ \/ At(i, "runAgent", "executed")
          \/ At(i, "runAgent", "run") /\ tasks[i].decision = NoToolCall
       /\ tasks' = [tasks EXCEPT
                      ![i].pc = "returned",
                      ![i].result = IF lastToolCall # NoToolCall THEN lastToolCall
                                    ELSE ChatResponse]
       /\ lastToolCall' = NoToolCall
  /\ UNCHANGED <<faults, profiles, sessions, pendingPayments, msgs, rail, now, call>>

----------------------------------------------------------------------------
(* The clock and startCleanupTimer *)

Tick ==
  /\ now < MaxTime
  /\ now' = now + 1
  /\ UNCHANGED <<faults, profiles, sessions, pendingPayments, msgs, tasks, rail, call,
                 lastToolCall>>

\* The interval callback of startCleanupTimer: entries of pendingPayments
\* past their expiresAt are deleted.
Sweep ==
  /\ pendingPayments' =
       [r \in {q \in DOMAIN pendingPayments : now <= pendingPayments[q].expiresAt}
          |-> pendingPayments[r]]
  /\ UNCHANGED <<faults, profiles, sessions, msgs, tasks, rail, now, call,
                 lastToolCall>>

----------------------------------------------------------------------------
(* Specifications *)

NoCall == [op |-> "none", arg |-> <<>>, by |-> NoSender, res |-> NoResult]

InitStore ==
  /\ profiles = InitialProfiles
  /\ sessions = [u \in {} |-> 0]
  /\ pendingPayments = [r \in {} |-> 0]
  /\ msgs = <<>>
  /\ tasks = <<>>
  /\ rail = <<>>
  /\ now = 0
  /\ faults = 0
  /\ lastToolCall = NoToolCall

\* The parser and the validators on drawn inputs
InitParse == InitStore /\ call \in {Input(s) : s \in EvalInputs}

NextParse ==
  \/ EvalParseRecipient
  \/ EvalIsValidEVMAddress
  \/ EvalIsValidAmount
  \/ EvalIsValidFriendAlias

SpecParse == InitParse /\ [][NextParse]_vars

\* The address book and the resolver
InitBook == InitStore /\ call = NoCall

NextBook == AddFriend \/ RemoveFriend \/ Resolve

SpecBook == InitBook /\ [][NextBook]_vars

\* Payments: commands, links, messages, button presses and their handlers
Init == InitStore /\ call = NoCall

Next ==
  \/ DeepLink
  \/ AmountInput
  \/ DefaultMessage
  \/ Press
  \/ ConfirmAnswer
  \/ ConfirmEdit
  \/ ConfirmGetUser
  \/ ConfirmRail
  \/ CancelAnswer
  \/ CancelEdit
  \/ Tick

Spec == Init /\ [][Next]_vars

\* Payment links and button presses alone, with every handler that was
\* started running on: each await of a callback handler is a call of the
\* transport, the store or the rail that returns or throws, and the event
\* loop then runs the rest.
NextConfirm ==
  \/ DeepLink
  \/ Press
  \/ ConfirmAnswer
  \/ ConfirmEdit
  \/ ConfirmGetUser
  \/ ConfirmRail
  \/ CancelAnswer
  \/ CancelEdit

SpecConfirm ==
  /\ Init /\ [][NextConfirm]_vars
  /\ WF_vars(ConfirmAnswer) /\ WF_vars(ConfirmEdit)
  /\ WF_vars(ConfirmGetUser) /\ WF_vars(ConfirmRail)
  /\ WF_vars(CancelAnswer) /\ WF_vars(CancelEdit)

\* The /pay command and payment requests
NextCommands ==
  \/ Pay
  \/ Request
  \/ Press
  \/ PaymentCallback
  \/ DeclineCallback
  \/ Sweep
  \/ Tick

SpecCommands == Init /\ [][NextCommands]_vars

\* Payment requests, the clock and the interval callback of
\* startCleanupTimer, which setInterval keeps calling as time goes on
NextSweep ==
  \/ Request
  \/ Sweep
  \/ Tick

SpecSweep == Init /\ [][NextSweep]_vars /\ WF_vars(Sweep) /\ WF_vars(Tick)

\* The profiles after user 1 has sent `/request <to> 5` at time 0 to a
\* fresh store: the request is in the sender's list of sent requests and in
\* the receiver's list of received ones (one profile when to is user 1).
ProfilesAfterRequest(to) ==
  LET requestData ==
        [id |-> <<"r", "e", "q", "_", "1", "_", "x">>, from |-> U1, to |-> to,
         amount |-> parseFloat(<<"5">>), currency |-> Str_USDC, status |-> "pending",
         created_at |-> 0, expires_at |-> RequestWindow]
  IN [InitialProfiles EXCEPT ![U1].payment_requests_sent = <<requestData>>,
                             ![to].payment_requests_received = <<requestData>>]

\* The address-book commands on a store that is fresh or holds a request
InitFrame ==
  /\ profiles \in {InitialProfiles} \cup {ProfilesAfterRequest(to) : to \in Registered}
  /\ sessions = [u \in {} |-> 0]
  /\ pendingPayments = [r \in {} |-> 0]
  /\ msgs = <<>>
  /\ tasks = <<>>
  /\ rail = <<>>
  /\ now = 0
  /\ faults = 0
  /\ lastToolCall = NoToolCall
  /\ call = NoCall

NextFrame == AddFriend \/ RemoveFriend

SpecFrame == InitFrame /\ [][NextFrame]_vars

\* /addfriend handlers whose reads and updates interleave
NextRace == AddFriendRead \/ AddFriendUpdate

SpecRace == Init /\ [][NextRace]_vars

\* Runs of the agent side by side
NextAgent == RunAgent \/ ToolExecute \/ RunReturns

SpecAgent == Init /\ [][NextAgent]_vars

\* Prompts in a chat where every member can press
NextGroup ==
  \/ DeepLink
  \/ PressBy
  \/ ConfirmAnswer
  \/ ConfirmEdit
  \/ ConfirmGetUser
  \/ ConfirmRail
  \/ CancelAnswer
  \/ CancelEdit

SpecGroup == Init /\ [][NextGroup]_vars

\* The confirm payload built for drawn addresses and amounts, then parsed
InitPayload ==
  /\ InitStore
  /\ call \in {[op |-> "payload_input", arg |-> p, by |-> 0, res |-> NoResult] :
                  p \in PayloadInputs}

NextPayload == EvalConfirmData \/ EvalConfirmParse

SpecPayload == InitPayload /\ [][NextPayload]_vars

\* Several prompts outstanding at once, and the presses on them
NextPair ==
  \/ LinkAfterLink
  \/ Press
  \/ ConfirmAnswer
  \/ ConfirmEdit
  \/ ConfirmGetUser
  \/ ConfirmRail
  \/ CancelAnswer
  \/ CancelEdit

SpecPair == Init /\ [][NextPair]_vars

----------------------------------------------------------------------------
(* Claims about the confirmation of payments (Spec, SpecCommands) *)

\* The rail calls made by handleConfirmPayCallback
ConfirmedTransfers ==
  {k \in 1..Len(rail) : rail[k].via = "handleConfirmPayCallback"}

\* C1: the confirm presses on one prompt cause at most one call of the rail,
\* however their handlers interleave.
C1_OneTransferPerPrompt ==
  \A m \in 1..Len(msgs) :
     Cardinality({k \in ConfirmedTransfers : tasks[rail[k].task].msg = m}) <= 1

\* C2: every call of the rail was made for a confirm press of the paying
\* user on a prompt whose payload carries the address and the amount of the
\* call.
C2_TransferNeedsConfirmPress ==
  \A k \in 1..Len(rail) :
     /\ k \in ConfirmedTransfers
     /\ LET press == tasks[rail[k].task]
            payload == Split(msgs[press.msg].buttons[1], "_")
        IN /\ press.handler = "handleConfirmPayCallback"
           /\ getUserByTelegramId(press.from).arc_private_key = rail[k].key
           /\ payload[3] = rail[k].to
           /\ parseFloat(payload[4]) = rail[k].amount

\* The time a confirmation prompt stays valid after it was sent (the
\* specification's ticket lifetime; the controller keeps none).
TicketTTL == 1

\* C3: no call of the rail is made for a confirm press that was made after
\* the expiry time of its prompt.
C3_NoTransferAfterExpiry ==
  \A k \in ConfirmedTransfers :
     tasks[rail[k].task].at <= msgs[tasks[rail[k].task].msg].t + TicketTTL

\* C4: a step of the cancel handler leaves the rail alone, and no call of
\* the rail is made for a prompt that has shown the cancelled notice.
C4_NoTransferAfterCancel ==
  [][ /\ \A i \in 1..Len(tasks) :
           (tasks[i].handler = "handleCancelPayCallback" /\ tasks'[i] # tasks[i])
             => rail' = rail
      /\ \A k \in 1..Len(rail') :
           (k > Len(rail) /\ rail'[k].via = "handleConfirmPayCallback")
             => \A j \in 1..Len(msgs[tasks[rail'[k].task].msg].shown) :
                  msgs[tasks[rail'[k].task].msg].shown[j] # "cancelled" ]_vars

----------------------------------------------------------------------------
(* Claims about the parser and the validators (SpecParse) *)

\* C7: parse(a) yields Address(a) for every valid hex address a, and every
\* string that starts with "0x" but has the wrong length or a non-hex
\* character after the prefix fails with the invalid-address error.
C7_HexPrefixParsesStrictly ==
  (call.op = "parseRecipient" /\ StartsWith(Trim(call.arg), <<"0", "x">>)) =>
     IF evmAddressSchema(Trim(call.arg))
     THEN call.res = Parsed("address", Trim(call.arg))
     ELSE call.res = ParseError("Invalid EVM address format")

\* The amount the claim calls acceptable: a positive decimal, at most the
\* upper bound, with at most 6 fractional digits.
AcceptableAmount(v) ==
  /\ IsPositive(v)
  /\ Len(v.fp) <= 6
  /\ \/ Len(v.ip) < 13
     \/ v.ip = <<"1">> \o Rep("0", 12) /\ v.fp = <<>>

\* C8: amount validation accepts "10" and "0.000001", rejects "0", "-5",
\* "abc" and "1000000000001", and accepts nothing that is not a positive
\* decimal within the upper bound with at most 6 fractional digits.
C8_AmountValidation ==
  call.op = "isValidAmount" =>
     /\ call.arg \in {<<"1", "0">>, <<"0", ".", "0", "0", "0", "0", "0", "1">>}
          => call.res.ok
     /\ call.arg \in {<<"0">>, <<"-", "5">>, <<"a", "b", "c">>,
                      <<"1">> \o Rep("0", 11) \o <<"1">>}
          => ~call.res.ok
     /\ call.res.ok => AcceptableAmount(parseFloat(call.arg))

\* C9: alias validation rejects every casing of "me", "@bob", every
\* 17-character string and every string with a space, and accepts "bob-2".
C9_AliasValidation ==
  call.op = "isValidFriendAlias" =>
     /\ ( \/ ToLowerCase(call.arg) = Str_me
          \/ call.arg = <<"@">> \o Str_bob
          \/ Len(call.arg) = 17
          \/ \E i \in 1..Len(call.arg) : call.arg[i] = " " )
          => ~call.res.ok
     /\ call.arg = <<"b", "o", "b", "-", "2">> => call.res.ok

----------------------------------------------------------------------------
(* Claims about the address book and the resolver (SpecBook) *)

\* The address a stored friend target resolves to for user u (found = FALSE:
\* it resolves to none).
TargetResolution(friendData, u) ==
  IF friendData.type = "address"
  THEN Resolved("alias", friendData.value, <<>>, <<>>, <<>>, TRUE)
  ELSE resolveRecipient(InnerRecipient(friendData), u, TRUE)

\* C5: for every alias al that u added with a target that resolves to a
\* wallet address, resolve(al, u) returns that address with displayName al
\* (the profile store answering).
C5_AddedAliasResolves ==
  ( /\ call.op = "resolve" /\ call.storeUp
    /\ HasFriend(call.by, call.arg)
    /\ TargetResolution(getFriendByAlias(call.by, call.arg), call.by).found ) =>
     /\ call.res.found
     /\ call.res.address =
          TargetResolution(getFriendByAlias(call.by, call.arg), call.by).address
     /\ call.res.displayName = call.arg

\* The aliases of u whose target is the username name.
AliasesForUsername(u, name) ==
  IF HasUser(u)
  THEN {getUserByTelegramId(u).friends[i].alias :
          i \in {j \in 1..Len(getUserByTelegramId(u).friends) :
                   /\ getUserByTelegramId(u).friends[j].type = "username"
                   /\ getUserByTelegramId(u).friends[j].value = name}}
  ELSE {}

C10_AliasKeysWellFormed ==
  \A u \in DOMAIN profiles : \A i \in 1..Len(profiles[u].friends) :
     LET alias == profiles[u].friends[i].alias
     IN /\ Len(alias) >= 1 /\ Len(alias) <= 16
        /\ Head(alias) # "@"
        /\ ToLowerCase(alias) # Str_me

----------------------------------------------------------------------------
(* Claims about the address-book commands (SpecBook) *)

\* The alias of the command that the step carries out is a key of the
\* friends map of its user before the step.
AliasPresent ==
  /\ HasUser(call'.by)
  /\ \E i \in 1..Len(profiles[call'.by].friends) :
       profiles[call'.by].friends[i].alias = call'.arg

\* C11 as stated: an add for an alias that is present ends with the
\* already-exists outcome and leaves every profile as it was.
C11_AddOfPresentAliasFails ==
  [][ (call'.op = "addfriend" /\ AliasPresent) =>
        (call'.res.outcome = "exists" /\ profiles' = profiles) ]_vars

\* C11 as amended: an add for an alias that is present leaves every profile
\* as it was; it ends with the already-exists outcome when the target
\* parses, and with the invalid-identifier outcome when it does not.
C11_AddNeverOverwrites ==
  [][ (call'.op = "addfriend" /\ AliasPresent) =>
        /\ profiles' = profiles
        /\ call'.res.outcome =
             IF parseRecipient(call'.res.target).type = "error"
             THEN "invalid_target" ELSE "exists" ]_vars

\* C11: an add for the present alias bob has ended with already-exists and
\* bob still has the target it was given first.
C11_Witness ==
  /\ call.op = "addfriend" /\ call.by = U1 /\ call.arg = Str_bob
  /\ call.res.outcome = "exists" /\ call.res.target = <<"2">>
  /\ HasFriend(U1, Str_bob)
  /\ getFriendByAlias(U1, Str_bob).type = "username"

\* C12: a remove for an alias that is absent from the map of its user ends
\* with the not-found outcome, makes no profile update and leaves every
\* profile as it was; a remove for a present alias that is carried out
\* removes exactly that entry.
C12_RemoveOfAbsentAliasFails ==
  [][ (call'.op = "removefriend" /\ HasUser(call'.by)) =>
        IF AliasPresent
        THEN /\ call'.res.outcome \in {"removed", "failed"}
             /\ profiles' =
                  IF call'.res.outcome = "removed"
                  THEN [profiles EXCEPT ![call'.by].friends = DeleteKey(@, call'.arg)]
                  ELSE profiles
        ELSE /\ call'.res.outcome = "not_found"
             /\ call'.res.updates = 0
             /\ profiles' = profiles ]_vars

----------------------------------------------------------------------------
(* Claims about the results of the resolver (SpecBook) *)

\* C13: every result of resolve that is not null has an address made of
\* "0x" and exactly 40 hex digits, and a displayName that is not empty.
C13_ResolvedAddressIsValid ==
  (call.op = "resolve" /\ call.res.found) =>
     /\ evmAddressSchema(call.res.address)
     /\ call.res.displayName # <<>>

----------------------------------------------------------------------------
(* Claims about payment requests (SpecCommands) *)

\* The stored copies of the request with the given id
StoredCopies(id) ==
  UNION {{profiles[u].payment_requests_sent[k] :
            k \in {j \in 1..Len(profiles[u].payment_requests_sent) :
                     profiles[u].payment_requests_sent[j].id = id}}
         \cup {profiles[u].payment_requests_received[k] :
            k \in {j \in 1..Len(profiles[u].payment_requests_received) :
                     profiles[u].payment_requests_received[j].id = id}} :
         u \in DOMAIN profiles}

\* C14: when the payer has pressed decline on the prompt of a stored request
\* and the handler has finished, every stored copy of the request has status
\* declined, no call of the rail was made for the request, and the requester
\* was sent the decline notice.
C14_DeclineIsRecorded ==
  \A i \in 1..Len(tasks) :
     ( /\ tasks[i].handler = "handleDeclineCallback" /\ tasks[i].pc = "done"
       /\ Substring(tasks[i].data, 8) \in RequestIds ) =>
        /\ \A r \in StoredCopies(Substring(tasks[i].data, 8)) : r.status = "declined"
        /\ \A k \in 1..Len(rail) :
             rail[k].via = "handlePaymentCallback"
               => tasks[rail[k].task].data # PayData(Substring(tasks[i].data, 8))
        /\ tasks[i].notice = "declined"

\* C15: when the payer has pressed accept on the prompt of a stored request
\* that is pending and not expired and the handler has finished, a
\* confirm/cancel prompt for the requester's address and the amount of the
\* request has been sent to the payer.
C15_AcceptOpensConfirmation ==
  \A i \in 1..Len(tasks) :
     \A r \in StoredCopies(Substring(tasks[i].data, 4)) :
        ( /\ tasks[i].handler = "handlePaymentCallback" /\ tasks[i].pc = "done"
          /\ r.status = "pending" /\ tasks[i].at <= r.expires_at
          /\ r.to = tasks[i].from ) =>
           \E m \in 1..Len(msgs) :
              /\ msgs[m].chat = tasks[i].from
              /\ msgs[m].buttons =
                   <<ConfirmData(getUserByTelegramId(r.from).arc_address, r.amount,
                                 r.currency), CancelData>>

\* C16: a step in which createPaymentRequest returns leaves the new request
\* in the sent list of its sender and in the received list of its receiver,
\* and keeps every request that was in a list of a profile in that list.
C16_RequestStoredInBothLists ==
  [][ ( /\ call'.op = "request" /\ call'.res.created
        /\ call'.res.id \notin RequestIds ) =>
        /\ call'.res.id \in IdsIn(profiles'[call'.by].payment_requests_sent)
        /\ call'.res.id \in IdsIn(profiles'[call'.res.to].payment_requests_received)
        /\ \A u \in DOMAIN profiles :
             /\ IdsIn(profiles[u].payment_requests_sent)
                  \subseteq IdsIn(profiles'[u].payment_requests_sent)
             /\ IdsIn(profiles[u].payment_requests_received)
                  \subseteq IdsIn(profiles'[u].payment_requests_received) ]_vars

----------------------------------------------------------------------------
(* Claims about the entry of an amount (Spec) *)

\* C17: a payment link without amount leaves the slot of its user holding
\* the address of that link, whatever the slot held before; an amount that
\* is accepted produces one prompt, for the address the slot held, and
\* empties the slot.
C17_SecondLinkReplacesSlot ==
  [][ /\ (call'.op = "deeplink" /\ call'.res.outcome = "ask_amount") =>
           /\ call'.by \in DOMAIN sessions'
           /\ sessions'[call'.by].waitingFor = "payment_amount"
           /\ sessions'[call'.by].paymentData.targetAddress = Split(call'.arg, "_")[2]
      /\ (call' # call /\ call'.op = "amount" /\ call'.res.outcome = "prompt") =>
           /\ Len(msgs') = Len(msgs) + 1
           /\ Split(msgs'[Len(msgs')].buttons[1], "_")[3]
                = sessions[call'.by].paymentData.targetAddress
           /\ call'.by \notin DOMAIN sessions' ]_vars

\* C17: a second link without amount has replaced the slot that held the
\* address of the first.
C17_Witness ==
  /\ call.op = "deeplink" /\ call.by = U1 /\ call.res.outcome = "ask_amount"
  /\ call.res.replaced = Addr("c")
  /\ sessions[U1].paymentData.targetAddress = Addr("d")

\* C18: a text that is not a valid amount leaves the slot of its user and
\* the prompts as they were and is answered by the request to enter a valid
\* amount.
C18_InvalidAmountKeepsSlot ==
  [][ (call'.op = "amount" /\ amountSchema(parseFloat(call'.arg)) # "ok") =>
        /\ call'.res.outcome = "invalid_amount"
        /\ sessions' = sessions
        /\ msgs' = msgs ]_vars

----------------------------------------------------------------------------
(* Claims about stored targets and repeated resolution (SpecBook) *)

\* C19: every stored friend target has kind address, username or user id,
\* never alias.
C19_NoAliasTargets ==
  \A u \in DOMAIN profiles : \A i \in 1..Len(profiles[u].friends) :
     profiles[u].friends[i].type \in {"address", "username", "userId"}

----------------------------------------------------------------------------
(* Claims about the outcomes of a transfer (Spec, SpecCommands) *)

\* The transfers the confirm handler made whose last edit went through
FinishedTransfers ==
  {k \in 1..Len(rail) : /\ rail[k].via = "handleConfirmPayCallback"
                         /\ tasks[rail[k].task].pc = "done"}

\* C21: when the transfer of a confirm press fails with an error other than
\* insufficient funds, the text the handler leaves on the prompt carries none
\* of the rail's error message; when it fails for insufficient funds, the
\* text is the specific one that names the amount needed.
C21_RailFailureTextIsGeneric ==
  \A k \in FinishedTransfers :
    LET text == tasks[rail[k].task].edit
    IN /\ rail[k].result = "error" => text # PaymentFailedText(ErrorMessage("error"))
       /\ rail[k].result = "insufficient" => text = "Insufficient USDC funds. Need 5 USDC."

\* C22: whenever a transfer of the confirm handler settles and its recipient
\* address is the wallet of a registered user, the handler has sent that user
\* the notice of the payment received.
C22_SettledTransferNotifiesUser ==
  \A k \in FinishedTransfers :
    (rail[k].result = "success" /\ UsersByAddress(rail[k].to) # {})
      => tasks[rail[k].task].notice = "received"

\* C23: when the notice to the recipient of a /pay cannot be delivered after
\* the transfer succeeded, the payer keeps the receipt and gets no error
\* message, and the command made exactly one transfer.
C23_NoticeFailureKeepsReceipt ==
  [][(call'.op = "pay" /\ call'.res.notice = "failed" /\ rail' # rail /\ tasks' = tasks)
       => /\ call'.res.outcome = "sent"
          /\ Len(rail') = Len(rail) + 1
          /\ rail'[Len(rail')].result = "success"]_vars

C23_Witness ==
  /\ call.op = "pay" /\ call.res.notice = "failed" /\ call.res.outcome = "sent"
  /\ rail # <<>> /\ rail[Len(rail)].via = "handlePay"
  /\ UsersByAddress(rail[Len(rail)].to) # {}

\* Task i is a confirm press whose "processing" edit went through
Executing(i) ==
  /\ i \in 1..Len(tasks)
  /\ tasks[i].handler = "handleConfirmPayCallback"
  /\ tasks[i].pc \in {"getUser", "rail"}

\* C24: every confirm press that has put the "processing" placeholder on the
\* prompt is followed by a state in which the prompt shows another text (the
\* receipt, a failure text or the invalid-data text).
C24_ExecutingEndsTerminal ==
  \A i \in 1..MaxPresses :
    [](Executing(i) => <>(/\ i \in 1..Len(tasks)
                          /\ CurrentText(tasks[i].msg) \notin {"prompt", "processing"}))

----------------------------------------------------------------------------
(* Claims about the failures of the resolver (SpecBook) *)

----------------------------------------------------------------------------
(* Claims about user ids (SpecParse) *)

\* Number.MAX_SAFE_INTEGER, 2^53 - 1
MaxSafeInteger ==
  <<"9", "0", "0", "7", "1", "9", "9", "2", "5", "4", "7", "4", "0", "9", "9", "1">>

\* C26: an all-digit string parses to the user id n only when n is positive
\* and at most Number.MAX_SAFE_INTEGER, n being the integer the string
\* writes; an all-zero string and a string that writes a larger integer
\* fail with the invalid-user-id error.
C26_UserIdInRange ==
  (call.op = "parseRecipient" /\ call.arg # <<>> /\ AllDigits(Trim(call.arg))) =>
     LET n == StripZeros(Trim(call.arg))
         inRange == n # <<>> /\ ~IntGreater(n, MaxSafeInteger)
     IN /\ call.res.type = "userId" => (inRange /\ call.res.value = n)
        /\ ~inRange => /\ call.res.type = "error"
                       /\ call.res.err = "Invalid Telegram user ID"

----------------------------------------------------------------------------
(* Claims about the expiry of stored requests (SpecSweep) *)

\* The stored copies of request id that have the given status
CopiesWithStatus(id, status) ==
  {c \in StoredCopies(id) : c.status = status}

\* C27: every stored payment request that is pending when the clock is past
\* its expires_at is later stored with status expired, no copy of it
\* pending.
C27_StaleRequestsExpire ==
  \A n \in 1..MaxRequests :
    LET id == <<"r", "e", "q", "_", DigitSeq[n + 1], "_", "x">>
    IN (\E c \in CopiesWithStatus(id, "pending") : now > c.expires_at)
         ~> (CopiesWithStatus(id, "pending") = {} /\ CopiesWithStatus(id, "expired") # {})

----------------------------------------------------------------------------
(* Claims about the order of the steps of a confirm press (Spec) *)

\* The rail calls made for press i
RailCallsOf(i) ==
  {k \in 1..Len(rail) : rail[k].via = "handleConfirmPayCallback" /\ rail[k].task = i}

\* C28: the handler of a confirm press calls the rail at most once, and
\* when it has called it, its calls were, in this order: the answer to the
\* callback query (answerCallbackQuery returning, the query answered or
\* refused as too old), the edit of the prompt to the "processing" text, the
\* rail.
C28_AnswerEditThenRail ==
  \A i \in 1..Len(tasks) :
    tasks[i].handler = "handleConfirmPayCallback" =>
      /\ Cardinality(RailCallsOf(i)) <= 1
      /\ Cardinality({j \in 1..Len(tasks[i].steps) : tasks[i].steps[j] = "rail"})
           = Cardinality(RailCallsOf(i))
      /\ RailCallsOf(i) # {} =>
           /\ tasks[i].steps[1] \in {"answer", "answer_too_old"}
           /\ SubSeq(tasks[i].steps, 2, 3) = <<"processing", "rail">>

\* C28: a press whose handler answered, edited and called the rail, while
\* another press of the same prompt was refused its "processing" edit
C28_Witness ==
  \E i, j \in 1..Len(tasks) :
    /\ i # j /\ tasks[i].msg = tasks[j].msg
    /\ tasks[i].steps = <<"answer", "processing", "rail">> /\ RailCallsOf(i) # {}
    /\ tasks[j].handler = "handleConfirmPayCallback"
    /\ tasks[j].pc \in {"done", "rejected"} /\ RailCallsOf(j) = {}

----------------------------------------------------------------------------
(* Claims about the recursion of the resolver (SpecBook) *)

\* C29: every call of the resolver ends, and it calls the resolver inside
\* itself at most once.
C29_ResolveTerminates ==
  call.op = "resolve" =>
    /\ ~call.res.diverges
    /\ Recursions(call.arg, call.by, MaxFriends + 1, call.storeUp) <= 1

----------------------------------------------------------------------------
(* Claims about what the address-book commands leave alone (SpecFrame) *)

\* C30: /addfriend and /removefriend change no field of any profile other
\* than the friends map of the profile: wallet address, username, key and
\* the lists of sent and received payment requests stay as they were.
C30_FriendCommandsKeepOtherFields ==
  [][call'.op \in {"addfriend", "removefriend"} =>
       /\ DOMAIN profiles' = DOMAIN profiles
       /\ \A u \in DOMAIN profiles :
            [profiles'[u] EXCEPT !.friends = profiles[u].friends] = profiles[u]]_vars

\* C30: an alias was removed from a profile that holds a sent and a
\* received request and still has a friend
C30_Witness ==
  /\ call.op = "removefriend" /\ call.res.outcome = "removed"
  /\ profiles[call.by].payment_requests_sent # <<>>
  /\ profiles[call.by].payment_requests_received # <<>>
  /\ profiles[call.by].friends # <<>>

----------------------------------------------------------------------------
(* Claims about prompts outstanding together (SpecPair) *)

\* C31: of the prompts a user has outstanding, each confirm press calls the
\* rail at most once, and once when its receipt is shown, with the address
\* and the amount of the prompt that was pressed; and a step that changes a
\* prompt (its texts, its keyboard) is a step of a press on that prompt.
C31_PromptsAreIndependent ==
  /\ [](\A i \in 1..Len(tasks) :
         /\ Cardinality(RailCallsOf(i)) <= 1
         /\ (tasks[i].handler = "handleConfirmPayCallback"
               /\ CurrentText(tasks[i].msg) = "sent"
               /\ \A j \in 1..Len(tasks) : j # i => tasks[j].msg # tasks[i].msg)
              => Cardinality(RailCallsOf(i)) = 1
         /\ \A k \in RailCallsOf(i) :
              \E ticket \in PairTickets :
                /\ msgs[tasks[i].msg].buttons[1]
                     = ConfirmData(ticket.address, parseFloat(ticket.amount), Str_USDC)
                /\ rail[k].to = ticket.address
                /\ rail[k].amount = parseFloat(ticket.amount))
  /\ [][\A m \in 1..Len(msgs) :
          msgs'[m] # msgs[m]
            => \E i \in 1..Len(tasks) :
                 /\ tasks[i].msg = m
                 /\ tasks'[i] # tasks[i]
                 /\ \A j \in 1..Len(tasks) : j # i => tasks'[j] = tasks[j]]_vars

\* Two prompts of one user with different payloads: the first confirmed and
\* its receipt shown, the second cancelled.
C31_Witness ==
  /\ Len(msgs) = 2 /\ msgs[1].chat = msgs[2].chat
  /\ msgs[1].buttons[1] # msgs[2].buttons[1]
  /\ CurrentText(1) = "sent" /\ CurrentText(2) = "cancelled"
  /\ Len(rail) = 1 /\ rail[1].to = Split(msgs[1].buttons[1], "_")[3]

----------------------------------------------------------------------------
(* Claims about the confirm payload (SpecPayload) *)

\* C32: for an address that matches the address pattern and an amount that
\* the amount schema accepts, the confirm handler reads from the payload
\* built for them the same address, the same amount and the currency USDC.
C32_PayloadRoundTrip ==
  (/\ call.op = "confirm_parse"
   /\ evmAddressSchema(call.arg[1])
   /\ amountSchema(parseFloat(call.arg[2])) = "ok")
    => /\ ~call.res.invalid
       /\ call.res.targetAddress = call.arg[1]
       /\ call.res.amount = parseFloat(call.arg[2])
       /\ call.res.currency = Str_USDC

\* A valid address and an amount below 1e-6 that the schema rounds up and
\* accepts: the payload carries the amount in exponent form.
C32_Witness ==
  /\ call.op = "confirm_parse"
  /\ evmAddressSchema(call.arg[1])
  /\ amountSchema(parseFloat(call.arg[2])) = "ok"
  /\ \E k \in 1..Len(call.res.data) : call.res.data[k] = "e"
  /\ call.res.amount = parseFloat(call.arg[2])

----------------------------------------------------------------------------
(* Claims about what the payer is shown (Spec, SpecCommands) *)

\* The texts of the two catch blocks of handleConfirmPayCallback
FailureTexts ==
  {PaymentFailedText(ErrorMessage(thrown)) : thrown \in RailOutcomes \cup {"transport"}}

\* C33: a step of a confirm handler that puts a payment-failed text on the
\* prompt is a step of a handler whose call of the rail did not succeed.
C33_NoFailureTextAfterSuccess ==
  [][\A i \in 1..Len(tasks) :
       (/\ tasks[i].pc = "edit" /\ tasks'[i] # tasks[i]
        /\ msgs' # msgs
        /\ tasks[i].edit \in FailureTexts)
         => \A k \in RailCallsOf(i) : rail[k].result # "success"]_vars

\* C34: every call of the rail carries an address that matches the address
\* pattern and an amount that the amount schema accepts.
C34_RailArgumentsValid ==
  \A k \in 1..Len(rail) :
     /\ evmAddressSchema(rail[k].to)
     /\ amountSchema(rail[k].amount) = "ok"

----------------------------------------------------------------------------
(* Claims about payment requests (SpecCommands) *)

\* C35: a /request that reached the store tells the requester one thing:
\* that the request could not be sent only when the message to the payer
\* was not delivered, and never after telling that the request was sent.
C35_OneNoticePerRequest ==
  (call.op = "request" /\ call.res.created)
    => LET notices == RequesterNotices(call.res.outcome)
           told(n) == \E k \in 1..Len(notices) : notices[k] = n
       IN /\ Len(notices) = 1
          /\ ~(told("request_sent") /\ told("could_not_send"))
          /\ told("could_not_send")
               => ~\E m \in 1..Len(msgs) : msgs[m].buttons[1] = PayData(call.res.id)

----------------------------------------------------------------------------
(* Claims about who pays (SpecGroup) *)

\* C36: every call of the rail made for a press is signed with the key of
\* the user who pressed, and with the key of no other user.
C36_PresserPays ==
  \A k \in 1..Len(rail) :
     /\ rail[k].task \in 1..Len(tasks)
     /\ HasUser(tasks[rail[k].task].from)
     /\ rail[k].key = getUserByTelegramId(tasks[rail[k].task].from).arc_private_key
     /\ \A u \in DOMAIN profiles :
          u # tasks[rail[k].task].from => rail[k].key # profiles[u].arc_private_key

\* User 2 has confirmed a prompt that was produced for user 1, and the rail
\* was called with the key of user 2.
C36_Witness ==
  \E k \in 1..Len(rail) :
     /\ tasks[rail[k].task].from = U2
     /\ msgs[tasks[rail[k].task].msg].chat = U1
     /\ rail[k].key = profiles[U2].arc_private_key
     /\ rail[k].result = "success"

\* C37: a /request whose createPaymentRequest failed has added its request
\* to no list of no profile.
C37_FailedRequestStoresNothing ==
  [][(/\ call'.op = "request" /\ call'.res.outcome = "failed"
      /\ <<call, profiles>>' # <<call, profiles>>)
       => /\ RequestIds' = RequestIds
          /\ profiles' = profiles]_vars

----------------------------------------------------------------------------
(* Claims about handlers running side by side (SpecRace, SpecAgent) *)

\* C38: when two /addfriend handlers of one user for different aliases have
\* both reported the friend added, both aliases are in the stored profile.
C38_NoLostFriend ==
  \A i, j \in 1..Len(tasks) :
     (/\ i # j
      /\ tasks[i].from = tasks[j].from /\ tasks[i].alias # tasks[j].alias
      /\ tasks[i].outcome = "added" /\ tasks[j].outcome = "added")
       => /\ HasKey(profiles[tasks[i].from].friends, tasks[i].alias)
          /\ HasKey(profiles[tasks[i].from].friends, tasks[j].alias)

====
